---- MODULE Spec2Model ----
(***************************************************************************)
(* Model of gpudb/gpudb_multihead_io.py: the client-side sharded ingest    *)
(* (GPUdbIngestor, _WorkerQueue), the key builder and router (_RecordKey,  *)
(* _RecordKeyBuilder), worker discovery (GPUdbWorkerList) and the key      *)
(* lookup (RecordRetriever).                                               *)
(*                                                                         *)
(* 64-bit integers are kept as four 16-bit limbs, least significant first, *)
(* in two's complement, because the routing hash is a signed 64-bit value. *)
(***************************************************************************)
EXTENDS Integers, Sequences, FiniteSets, TLC

\* ------------------------------------------------------------------------
\* Bounds of the model
\* ------------------------------------------------------------------------
MaxSubmit == 2      \* records the caller submits over a run
MaxList == 2        \* longest list passed to insert_records
MaxBatch == 2       \* largest batch_size (queue capacity)
MaxCount == 1       \* largest count_inserted / count_updated in one reply
MaxLookupSubmit == 1 \* records submitted in the runs that also look up keys
MaxCapacity == 3    \* largest capacity of a worker queue that is called directly
MaxInserts == 3     \* records passed to a worker queue that is called directly
DaysBefore == 25570 \* days before the epoch of the earliest timestamp (1899-12-29)
DaysAfter == 47850  \* days after the epoch of the latest timestamp (2101-01-04)


\* ------------------------------------------------------------------------
\* Signed 64-bit values as limbs
\* ------------------------------------------------------------------------
LimbBase == 256 * 256
HalfLimb == LimbBase \div 2

I64IsNeg(h) == h[4] >= HalfLimb

\* two's complement negation, as an unsigned 64-bit magnitude (2^63 for
\* INT64_MIN, which is what Python's abs() of a negative int yields)
I64Negate(h) ==
    LET s1 == (LimbBase - 1 - h[1]) + 1
        s2 == (LimbBase - 1 - h[2]) + (s1 \div LimbBase)
        s3 == (LimbBase - 1 - h[3]) + (s2 \div LimbBase)
        s4 == (LimbBase - 1 - h[4]) + (s3 \div LimbBase)
    IN  << s1 % LimbBase, s2 % LimbBase, s3 % LimbBase, s4 % LimbBase >>

\* faulty variant of PyAbs: the sign bit is masked off
PyAbsMask(h) == [ h EXCEPT ![4] = @ % HalfLimb ]

\* abs() of a Python int holding a signed 64-bit value
PyAbs(h) == IF I64IsNeg(h) THEN I64Negate(h) ELSE h

\* unsigned limbs modulo a small positive n (Horner, most significant first)
LimbsMod(u, n) ==
    LET r4 == u[4] % n
        r3 == (r4 * LimbBase + u[3]) % n
        r2 == (r3 * LimbBase + u[2]) % n
        r1 == (r2 * LimbBase + u[1]) % n
    IN  r1

RECURSIVE Xor(_, _, _)
\* bitwise xor of two naturals below 2^bits
Xor(a, b, bits) ==
    IF bits = 0 THEN 0
    ELSE (((a % 2) + (b % 2)) % 2) + 2 * Xor(a \div 2, b \div 2, bits - 1)

\* h >> 32 on a Python int: arithmetic shift, sign extended
I64Shr32(h) ==
    LET s == IF I64IsNeg(h) THEN LimbBase - 1 ELSE 0
    IN  << h[3], h[4], s, s >>

I64Xor(a, b) == [ i \in 1..4 |-> Xor(a[i], b[i], 16) ]

\* ------------------------------------------------------------------------
\* struct.pack of an integer, native order of a little-endian host
\* ------------------------------------------------------------------------
RECURSIVE Pow256(_)
Pow256(i) == IF i = 0 THEN 1 ELSE 256 * Pow256(i - 1)

\* struct.pack( "=i" / "=I", v ): four bytes, least significant first
Pack32(v) == [ i \in 1..4 |-> (v \div Pow256(i - 1)) % 256 ]

\* ------------------------------------------------------------------------
\* _ColumnTypeSize.column_type_sizes
\* ------------------------------------------------------------------------
column_type_sizes ==
    [ t \in { "char1", "char2", "char4", "char8", "char16", "char32",
              "char64", "char128", "char256", "date", "datetime", "decimal",
              "ipv4", "int8", "int16", "time", "timestamp", "int", "double",
              "float", "long", "string" } |->
        CASE t = "char1" -> 1   [] t = "char2" -> 2    [] t = "char4" -> 4
          [] t = "char8" -> 8   [] t = "char16" -> 16  [] t = "char32" -> 32
          [] t = "char64" -> 64 [] t = "char128" -> 128 [] t = "char256" -> 256
          [] t = "date" -> 4    [] t = "datetime" -> 8 [] t = "decimal" -> 8
          [] t = "ipv4" -> 4    [] t = "int8" -> 1     [] t = "int16" -> 2
          [] t = "time" -> 4    [] t = "timestamp" -> 8 [] t = "int" -> 4
          [] t = "double" -> 8  [] t = "float" -> 4    [] t = "long" -> 8
          [] t = "string" -> 8 ]

\* ------------------------------------------------------------------------
\* Record types.  A column is [name, type, props]; props = {} stands for a
\* column that has no entry in record_type.column_properties.
\* ------------------------------------------------------------------------
Col(n, t, p) == [ name |-> n, type |-> t, props |-> p ]

\* Column values: Python's None, an int, or a string given to add_ipv4 that
\* is either rejected by _ipv4_regex or matches it with the numbers A.B.C.D
NullVal == [ k |-> "None", v |-> << >> ]
IntVal(n) == [ k |-> "int", v |-> << n >> ]
Ipv4Val(a, b, c, d) == [ k |-> "ipv4", v |-> << a, b, c, d >> ]
MalformedVal == [ k |-> "malformed", v |-> << >> ]
\* a str, as the sequence of the code points of its characters
StrVal(chars) == [ k |-> "str", v |-> chars ]

ColumnNames(rt) == [ i \in 1..Len(rt) |-> rt[i].name ]

\* list.index( x )
RECURSIVE IndexFrom(_, _, _)
IndexFrom(s, x, i) ==
    IF i > Len(s) THEN 0
    ELSE IF s[i] = x THEN i ELSE IndexFrom(s, x, i + 1)

IndexOf(s, x) == IndexFrom(s, x, 1)

Range(s) == { s[i] : i \in 1..Len(s) }

\* the first loop of _RecordKeyBuilder.__init__: the key columns in
\* declaration order
RECURSIVE KeyColumnsFrom(_, _, _)
KeyColumnsFrom(rt, tag, i) ==
    IF i > Len(rt) THEN << >>
    ELSE IF tag \in rt[i].props
         THEN << i >> \o KeyColumnsFrom(rt, tag, i + 1)
         ELSE KeyColumnsFrom(rt, tag, i + 1)

TrackTypeColumns == { "TRACKID", "TIMESTAMP", "x", "y" }

\* the type a key column is encoded with, or an error
KeyTypeOf(col) ==
    LET related == col.props \cap DOMAIN column_type_sizes
    IN  IF col.props = {} THEN "TypeError"
        ELSE IF related = {} THEN col.type
        ELSE IF Cardinality(related) > 1 THEN "GPUdbException"
        ELSE CHOOSE t \in related : TRUE

IsError(x) == x \in { "GPUdbException", "TypeError", "KeyError", "IndexError",
                      "InsertionException" }

RECURSIVE SumSizes(_)
SumSizes(types) ==
    IF types = << >> THEN 0
    ELSE column_type_sizes[Head(types)] + SumSizes(Tail(types))

\* _RecordKeyBuilder.__init__
RecordKeyBuilder(rt, is_primary_key) ==
    LET names    == ColumnNames(rt)
        tag      == IF is_primary_key THEN "primary_key" ELSE "shard_key"
        tagged   == KeyColumnsFrom(rt, tag, 1)
        fields   == [ k \in 1..Len(tagged) |->
                        [ name |-> rt[tagged[k]].name,
                          type |-> rt[tagged[k]].type,
                          is_nullable |-> IF "nullable" \in rt[tagged[k]].props
                                          THEN "True" ELSE "False" ] ]
        is_track == TrackTypeColumns \subseteq Range(names)
        track_id_index == IndexOf(names, "TRACKID")
        synth    == (~is_primary_key) /\ is_track /\ tagged = << >>
        badTrack == (~is_primary_key) /\ is_track /\ tagged # << >>
                    /\ (Len(tagged) # 1 \/ tagged[1] # track_id_index)
        \* the synthesized field takes the loop's last column_name/column_type
        indices  == IF synth THEN << track_id_index >> ELSE tagged
        allFields == IF synth
                     THEN << [ name |-> rt[Len(rt)].name,
                               type |-> rt[Len(rt)].type,
                               is_nullable |-> "missing" ] >>
                     ELSE fields
        types    == [ k \in 1..Len(indices) |-> KeyTypeOf(rt[indices[k]]) ]
        typeErrs == { k \in 1..Len(indices) : IsError(types[k]) }
        firstErr == CHOOSE k \in typeErrs : \A j \in typeErrs : k <= j
        status   == IF badTrack THEN "GPUdbException"
                    ELSE IF indices = << >> THEN "ok"
                    ELSE IF typeErrs # {} THEN types[firstErr]
                    ELSE IF \E k \in 1..Len(allFields) :
                                allFields[k].is_nullable = "missing"
                         THEN "KeyError"
                    ELSE "ok"
    IN  [ status              |-> status,
          routing_key_indices |-> indices,
          key_columns_names   |-> [ k \in 1..Len(tagged) |-> rt[tagged[k]].name ],
          key_types           |-> IF status = "ok" THEN types ELSE << >>,
          key_buffer_size     |-> IF status = "ok" THEN SumSizes(types) ELSE 0,
          \* key_schema_str: the fields' names, types and nullability; the
          \* empty sequence stands for None
          key_schema_str      |-> IF status = "ok" /\ indices # << >>
                                  THEN << allFields >> ELSE << >> ]

\* _RecordKeyBuilder.has_key
has_key(b) == Len(b.key_columns_names) > 0

\* _RecordKeyBuilder.has_same_key
has_same_key(b, other) == b.key_schema_str = other.key_schema_str

\* ------------------------------------------------------------------------
\* _RecordKey: [buffer_size, buffer_value, is_valid, status]
\* ------------------------------------------------------------------------
\* _RecordKey.__init__
RecordKey(buffer_size) ==
    [ buffer_size  |-> buffer_size,
      buffer_value |-> << >>,
      is_valid     |-> TRUE,
      status       |-> IF buffer_size < 1 THEN "GPUdbException" ELSE "ok" ]

\* _RecordKey.__will_buffer_overflow( n ), throwing
will_buffer_overflow(key, n) == Len(key.buffer_value) + n > key.buffer_size

Append32(key, bytes, valid) ==
    IF key.status # "ok" THEN key
    ELSE IF will_buffer_overflow(key, 4)
         THEN [ key EXCEPT !.status = "GPUdbException" ]
    ELSE [ key EXCEPT !.buffer_value = @ \o bytes,
                      !.is_valid = @ /\ valid ]

\* _RecordKey.add_int; val is None or an integer
add_int(key, val) ==
    IF val.k = "None" THEN Append32(key, Pack32(0), TRUE)
    ELSE Append32(key, Pack32(val.v[1]), TRUE)

\* faulty variant of add_ipv4: the bytes are appended in the order of the
\* dotted quad
add_ipv4_quad_order(key, val) ==
    IF val.k = "None" THEN Append32(key, Pack32(0), TRUE)
    ELSE IF val.k = "malformed" THEN Append32(key, Pack32(0), FALSE)
    ELSE IF \E j \in 1..4 : val.v[j] > 255 THEN Append32(key, Pack32(0), FALSE)
    ELSE Append32(key, val.v, TRUE)

\* _RecordKey.add_ipv4; val is None, "malformed" (no match of _ipv4_regex)
\* or the four numbers A, B, C, D of a matching string, each 0..999
add_ipv4(key, val) ==
    IF val.k = "None" THEN Append32(key, Pack32(0), TRUE)
    ELSE IF val.k = "malformed" THEN Append32(key, Pack32(0), FALSE)
    ELSE LET a == val.v[1]
             b == val.v[2]
             c == val.v[3]
             d == val.v[4]
         IN  IF (a > 255) \/ (b > 255) \/ (c > 255) \/ (d > 255)
             THEN Append32(key, Pack32(0), FALSE)
             \* ( a << 24 ) | ( b << 16 ) | ( c << 8 ) | d, packed "=I"
             ELSE Append32(key, << d, c, b, a >>, TRUE)

\* n bytes 0
ZeroBytes(n) == [ i \in 1..n |-> 0 ]

\* An integer number of milliseconds since the epoch is kept as the pair
\* <<days, ms>> with 0 <= ms < MSECS_PER_DAY: the integer
\* days * MSECS_PER_DAY + ms
TsVal(days, ms) == [ k |-> "ts", v |-> << days, ms >> ]

MSECS_PER_DAY == 86400000
\* MS_EPOCH_OFFSET = 62135596800000 is this many times MSECS_PER_DAY
DAYS_EPOCH_OFFSET == 719162
DAYS_PER_QUAD_CENTURY == 146097
DAYS_PER_CENTURY == 36524
DAYS_PER_QUAD_YEAR == 1461
DAYS_PER_YEAR == 365

\* faulty variant of leap_year: every fourth year is a leap year
leap_year_julian(year) == IF year % 4 = 0 THEN 1 ELSE 0

\* ly of add_timestamp
leap_year(year) ==
    IF year % 400 = 0 THEN 1
    ELSE IF year % 100 = 0 THEN 0
    ELSE IF year % 4 = 0 THEN 1 ELSE 0

\* the chain of tests on dy of add_timestamp: <<month_of_year_field, dy>>
month_and_day(day_of_year_field, ly) ==
    LET dy == day_of_year_field
    IN  IF dy <= 31 THEN << 1, dy >>
        ELSE IF dy <= 59 + ly THEN << 2, dy - 31 >>
        ELSE IF dy <= 90 + ly THEN << 3, dy - (59 + ly) >>
        ELSE IF dy <= 120 + ly THEN << 4, dy - (90 + ly) >>
        ELSE IF dy <= 151 + ly THEN << 5, dy - (120 + ly) >>
        ELSE IF dy <= 181 + ly THEN << 6, dy - (151 + ly) >>
        ELSE IF dy <= 212 + ly THEN << 7, dy - (181 + ly) >>
        ELSE IF dy <= 243 + ly THEN << 8, dy - (212 + ly) >>
        ELSE IF dy <= 273 + ly THEN << 9, dy - (243 + ly) >>
        ELSE IF dy <= 304 + ly THEN << 10, dy - (273 + ly) >>
        ELSE IF dy <= 334 + ly THEN << 11, dy - (304 + ly) >>
        ELSE << 12, dy - (334 + ly) >>

\* the fields add_timestamp (Python 3) extracts from val.  MSECS_PER_DAY
\* and MS_EPOCH_OFFSET are whole numbers of hours, so the fields of the time
\* of day come from ms alone
timestamp_fields(val) ==
    LET days_since_1 == val.v[1] + DAYS_EPOCH_OFFSET
        ms == val.v[2]
        quad_century == days_since_1 \div DAYS_PER_QUAD_CENTURY
        day_of_quad_century == days_since_1 - (quad_century * DAYS_PER_QUAD_CENTURY)
        century0 == day_of_quad_century \div DAYS_PER_CENTURY
        century_of_quad_century == IF century0 = 4 THEN 3 ELSE century0
        day_of_century == day_of_quad_century
                             - (century_of_quad_century * DAYS_PER_CENTURY)
        quad_year_of_century == day_of_century \div DAYS_PER_QUAD_YEAR
        day_of_quad_year == day_of_century - (quad_year_of_century * DAYS_PER_QUAD_YEAR)
        year0 == day_of_quad_year \div DAYS_PER_YEAR
        year_of_quad_year == IF year0 = 4 THEN 3 ELSE year0
        day_of_year_field == day_of_quad_year - (year_of_quad_year * DAYS_PER_YEAR) + 1
        year == (400 * quad_century) + (100 * century_of_quad_century)
                   + (4 * quad_year_of_century) + year_of_quad_year + 1
        md == month_and_day(day_of_year_field, leap_year(year))
    IN  [ year                |-> year,
          year_field          |-> year - 1900,
          month_of_year_field |-> md[1],
          day_of_month_field  |-> md[2],
          hour_field          |-> (ms \div 3600000) % 24,
          minute_field        |-> (ms \div 60000) % 60,
          sec_field           |-> (ms \div 1000) % 60,
          msec_field          |-> ms % 1000,
          day_of_year_field   |-> day_of_year_field,
          day_of_week_field   |-> ((days_since_1 + 1) % 7) + 1 ]

\* struct.pack( "=q", timestamp ) of the fields shifted to their places:
\* the 64 bits as four 16-bit limbs, each as two bytes
pack_timestamp(f) ==
    LET l1 == (f.day_of_week_field * 32) + ((f.day_of_year_field % 256) * 256)
        l2 == (f.day_of_year_field \div 256) + (f.msec_field * 2)
                 + ((f.sec_field % 32) * 2048)
        l3 == (f.sec_field \div 32) + (f.minute_field * 2) + (f.hour_field * 128)
                 + ((f.day_of_month_field % 16) * 4096)
        l4 == (f.day_of_month_field \div 16) + (f.month_of_year_field * 2)
                 + ((f.year_field % 2048) * 32)
    IN  << l1 % 256, l1 \div 256, l2 % 256, l2 \div 256,
           l3 % 256, l3 \div 256, l4 % 256, l4 \div 256 >>

\* _RecordKey.add_timestamp (Python 3); val is None or an int whose year is
\* in 876..2923 (the year field fits its eleven bits)
add_timestamp(key, val) ==
    IF key.status # "ok" THEN key
    ELSE IF will_buffer_overflow(key, 8)
         THEN [ key EXCEPT !.status = "GPUdbException" ]
    ELSE IF val.k = "None"
         THEN [ key EXCEPT !.buffer_value = @ \o ZeroBytes(8) ]
    ELSE [ key EXCEPT !.buffer_value = @ \o pack_timestamp(timestamp_fields(val)) ]

\* bytes( c, "utf-8" ) of one character, given by its code point
Utf8(c) ==
    IF c < 128 THEN << c >>
    ELSE IF c < 2048 THEN << 192 + (c \div 64), 128 + (c % 64) >>
    ELSE IF c < 65536
         THEN << 224 + (c \div 4096), 128 + ((c \div 64) % 64), 128 + (c % 64) >>
    ELSE << 240 + (c \div 262144), 128 + ((c \div 4096) % 64),
            128 + ((c \div 64) % 64), 128 + (c % 64) >>

RECURSIVE ReversedUtf8(_)
\* bytes( val[ -1::-1 ], "utf-8" ): the characters from the last to the first
ReversedUtf8(chars) ==
    IF chars = << >> THEN << >>
    ELSE ReversedUtf8(Tail(chars)) \o Utf8(Head(chars))

\* _RecordKey.add_charN (Python 3); val is None or a str
add_charN(key, val, N) ==
    IF key.status # "ok" THEN key
    ELSE IF val.k = "str" /\ val.v # << >> /\ Len(val.v) > N
         THEN [ key EXCEPT !.status = "GPUdbException" ]
    ELSE IF will_buffer_overflow(key, N)
         THEN [ key EXCEPT !.status = "GPUdbException" ]
    ELSE IF val.k = "None"
         THEN [ key EXCEPT !.buffer_value = @ \o ZeroBytes(N) ]
    ELSE LET byte_count == IF Len(val.v) > N THEN N ELSE Len(val.v)
         IN  [ key EXCEPT !.buffer_value =
                  @ \o ZeroBytes(N - byte_count) \o ReversedUtf8(val.v) ]

\* the N of the column types char1 .. char256
CharN == [ t \in { "char1", "char2", "char4", "char8", "char16", "char32",
                   "char64", "char128", "char256" } |-> column_type_sizes[t] ]

\* _RecordKeyBuilder._column_type_add_functions
add_column(key, col_type, val) ==
    CASE col_type = "int"  -> add_int(key, val)
      [] col_type = "ipv4" -> add_ipv4(key, val)
      [] col_type \in DOMAIN CharN -> add_charN(key, val, CharN[col_type])
      [] col_type = "timestamp" -> add_timestamp(key, val)

\* mmh3.hash64( buffer, seed = 10 )[ 0 ]: Murmur3 x64 128, low 64 bits, on
\* the key images of the record values of this model
mmh3_hash64(buf) ==
    CASE buf = << 0, 0, 0, 0 >>   -> << 60702, 64699, 30472, 651 >>
      [] buf = << 1, 0, 0, 10 >>  -> << 10522, 60710, 63403, 51251 >>
      [] buf = << 1, 0, 0, 0 >>   -> << 19882, 19821, 5121, 60282 >>
      [] buf = << 1, 0, 0, 127 >> -> << 40392, 4835, 11393, 49010 >>
      [] buf = << 4, 3, 2, 1 >>   -> << 39537, 30770, 62953, 4882 >>
      [] buf = << 10, 0, 0, 1 >> -> << 63444, 24983, 19356, 10813 >>
      [] buf = << 127, 0, 0, 1 >> -> << 23471, 11536, 41931, 44082 >>
      [] buf = << 1, 2, 3, 4 >> -> << 49315, 56754, 39720, 25592 >>
      [] buf = << 0, 0, 0, 0, 0, 0, 0, 0 >>  -> << 24040, 28780, 47130, 12356 >>
      [] buf = << 0, 0, 0, 0, 1, 0, 0, 0 >>  -> << 705, 28664, 45504, 43413 >>
      [] buf = << 1, 0, 0, 10, 0, 0, 0, 0 >> -> << 65191, 23594, 46556, 17729 >>
      [] buf = << 1, 0, 0, 10, 1, 0, 0, 0 >> -> << 14309, 43140, 29671, 56904 >>
      [] buf = << 0 >> -> << 16454, 35105, 3436, 1390 >>
      [] buf = << 97 >> -> << 47730, 14494, 31396, 63973 >>
      [] buf = << 0, 0 >> -> << 50123, 52311, 25527, 10463 >>
      [] buf = << 0, 97 >> -> << 7955, 45847, 52248, 55105 >>
      [] buf = << 98, 97 >> -> << 56099, 56780, 9742, 21665 >>
      [] buf = << 195, 169 >> -> << 21202, 2209, 30683, 45879 >>
      [] buf = << 0, 0, 0 >> -> << 28448, 58695, 37399, 29478 >>
      [] buf = << 0, 0, 97 >> -> << 41128, 56940, 13961, 44294 >>
      [] buf = << 0, 97, 0 >> -> << 51491, 5240, 17392, 4044 >>
      [] buf = << 0, 97, 97 >> -> << 33867, 5481, 11904, 43820 >>
      [] buf = << 0, 195, 169 >> -> << 61676, 47604, 65208, 41947 >>
      [] buf = << 98, 97, 0 >> -> << 10324, 13486, 49435, 14066 >>
      [] buf = << 98, 97, 97 >> -> << 45453, 8145, 38010, 18544 >>
      [] buf = << 0, 0, 195, 169 >> -> << 48219, 20176, 41678, 2306 >>
      [] buf = << 0, 97, 195, 169 >> -> << 29223, 63645, 48298, 46182 >>
      [] buf = << 98, 97, 195, 169 >> -> << 46221, 49612, 8630, 17432 >>
      [] buf = << 0, 0, 0, 0, 0 >> -> << 26737, 5541, 5041, 27873 >>
      [] buf = << 0, 1, 0, 0, 0 >> -> << 30458, 48725, 2917, 34591 >>
      [] buf = << 97, 0, 0, 0, 0 >> -> << 53385, 17839, 25942, 24019 >>
      [] buf = << 97, 1, 0, 0, 0 >> -> << 28711, 38152, 23712, 49931 >>
      [] buf = << 0, 0, 0, 0, 0, 0 >> -> << 57315, 55232, 60649, 42200 >>
      [] buf = << 0, 0, 0, 0, 0, 97 >> -> << 52862, 39105, 39670, 3329 >>
      [] buf = << 0, 0, 0, 0, 98, 97 >> -> << 18529, 62043, 24067, 19628 >>
      [] buf = << 1, 0, 0, 10, 0, 0 >> -> << 52801, 48508, 39561, 56454 >>
      [] buf = << 1, 0, 0, 10, 0, 97 >> -> << 3217, 63821, 19897, 25602 >>
      [] buf = << 1, 0, 0, 10, 98, 97 >> -> << 51309, 32206, 34187, 59332 >>
      [] buf = << 0, 0, 0, 0, 0, 195, 169 >> -> << 23221, 64888, 56528, 39181 >>
      [] buf = << 1, 0, 0, 10, 0, 195, 169 >> -> << 58276, 26048, 21032, 52975 >>

\* _RecordKey.compute_hashes
compute_hashes(key) ==
    LET routing_hash == mmh3_hash64(key.buffer_value)
    IN  [ buffer_value |-> key.buffer_value,
          is_valid     |-> key.is_valid,
          status       |-> "ok",
          routing_hash |-> routing_hash,
          hash_code    |-> I64Xor(routing_hash, I64Shr32(routing_hash)) ]

\* a built key that is Python's None, and a build that raised
NoKey == [ buffer_value |-> << >>, is_valid |-> FALSE, status |-> "None",
           routing_hash |-> << >>, hash_code |-> << >> ]
RaisedKey(e) == [ NoKey EXCEPT !.status = e ]

RECURSIVE AddColumns(_, _, _, _)
\* the loop over the routing columns of build / build_key_with_shard_values_only
AddColumns(key, types, values, i) ==
    IF i > Len(types) THEN key
    ELSE AddColumns(add_column(key, types[i], values[i]), types, values, i + 1)

\* _RecordKeyBuilder.build; record is the sequence of the column values.
\* The result is None, a key, or a key whose status is the error raised.
build(b, record) ==
    IF b.key_buffer_size = 0 THEN NoKey
    ELSE LET values == [ k \in 1..Len(b.routing_key_indices) |->
                           record[b.routing_key_indices[k]] ]
             key == AddColumns(RecordKey(b.key_buffer_size), b.key_types, values, 1)
         IN  IF key.status = "ok" THEN compute_hashes(key)
             ELSE RaisedKey(key.status)

\* _RecordKeyBuilder.build_key_with_shard_values_only; key_values is a list
build_key_with_shard_values_only(b, key_values) ==
    IF b.key_buffer_size = 0 THEN NoKey
    ELSE IF Len(key_values) # Len(b.key_columns_names)
         THEN RaisedKey("GPUdbException")
    ELSE LET key == AddColumns(RecordKey(b.key_buffer_size), b.key_types,
                               key_values, 1)
         IN  IF key.status = "ok" THEN compute_hashes(key)
             ELSE RaisedKey(key.status)

\* routing_index of _RecordKey.route, for a routing table that is not empty
routing_index(key, routing_table) ==
    LET routing_table_len == Len(routing_table)
    IN  LimbsMod(PyAbs(key.routing_hash), routing_table_len)

\* _RecordKey.route; the result is the entry of the routing table.  A
\* routing table that is None is the empty sequence here (both are falsy).
route(key, routing_table) ==
    IF routing_table = << >> THEN 0
    ELSE routing_table[routing_index(key, routing_table) + 1]

\* ------------------------------------------------------------------------
\* The server, as seen through show_system_properties and admin_show_shards.
\* A URL is [str, wellformed]; urls[1] are the addresses of rank 0 (head).
\* ------------------------------------------------------------------------
Url(u) == [ str |-> u, wellformed |-> TRUE ]

HeadUrl == "head"

Server(enabled, urls, ranks) ==
    [ enable_worker_http_servers |-> enabled,  \* "TRUE" or "FALSE"
      worker_http_server_urls    |-> urls,
      shard_ranks                |-> ranks ]   \* admin_show_shards()["rank"]

\* no ip_regex given
NoRegex == [ empty |-> TRUE, matches |-> {} ]

\* faulty variant of ChooseUrl: the last matching address of the rank is
\* taken, and no address is parsed
ChooseUrlLast(addresses, ip_regex, k) ==
    LET m == { j \in k..Len(addresses) :
                 ip_regex.empty \/ addresses[j].str \in ip_regex.matches }
    IN  IF m = {} THEN "none"
        ELSE addresses[CHOOSE j \in m : \A i \in m : i <= j].str

\* the inner loop of GPUdbWorkerList.__init__ over the addresses of a rank:
\* "malformed", "none" or the string of the chosen URL
RECURSIVE ChooseUrl(_, _, _)
ChooseUrl(addresses, ip_regex, k) ==
    IF k > Len(addresses) THEN "none"
    ELSE IF ~addresses[k].wellformed THEN "malformed"
    ELSE IF ip_regex.empty \/ addresses[k].str \in ip_regex.matches
         THEN addresses[k].str
    ELSE ChooseUrl(addresses, ip_regex, k + 1)

\* GPUdbWorkerList.__init__ (with conf.worker_http_server_urls present)
GPUdbWorkerList(srv, ip_regex, use_head_node_only) ==
    LET enabled == (srv.enable_worker_http_servers = "TRUE")
        per_rank == srv.worker_http_server_urls
        chosen == [ i \in 1..(Len(per_rank) - 1) |->
                      ChooseUrl(per_rank[i + 1], ip_regex, 1) ]
        bad == { i \in 1..Len(chosen) : chosen[i] \in { "none", "malformed" } }
    IN  IF ~enabled \/ use_head_node_only
        THEN [ status |-> "ok", worker_urls |-> << HeadUrl >>,
               is_multihead_enabled |-> enabled ]
        ELSE IF bad # {} \/ chosen = << >>
        THEN [ status |-> "GPUdbException", worker_urls |-> << >>,
               is_multihead_enabled |-> enabled ]
        ELSE [ status |-> "ok", worker_urls |-> chosen,
               is_multihead_enabled |-> enabled ]

\* ------------------------------------------------------------------------
\* _WorkerQueue
\* ------------------------------------------------------------------------
EmptyMap == << >>

\* _WorkerQueue.__init__
WorkerQueue(url, capacity, has_primary_key, update_on_existing_pk) ==
    [ url                   |-> url,
      capacity              |-> capacity,
      has_primary_key       |-> has_primary_key,
      update_on_existing_pk |-> update_on_existing_pk,
      record_queue          |-> << >>,
      \* None when the table has no primary key; the empty map stands for both
      primary_key_to_queue_index_map |-> EmptyMap ]

\* a returned batch, or None
NoBatch == [ none |-> TRUE, records |-> << >> ]
Batch(q) == [ none |-> FALSE, records |-> q ]

\* faulty variant of WorkerQueue_flush: the queue is returned and kept
WorkerQueue_flush_keep(wq) == << wq, Batch(wq.record_queue) >>

\* faulty variant of WorkerQueue_flush: the primary-key index is kept
WorkerQueue_flush_stale(wq) ==
    << [ wq EXCEPT !.record_queue = << >> ], Batch(wq.record_queue) >>

\* _WorkerQueue.flush: <<queue afterwards, returned list>>
WorkerQueue_flush(wq) ==
    << [ wq EXCEPT !.record_queue = << >>,
                   !.primary_key_to_queue_index_map =
                        IF @ # EmptyMap THEN EmptyMap ELSE @ ],
       Batch(wq.record_queue) >>

\* faulty variant of MapPut: the key is not remembered
MapForget(m, h, i) == m

\* faulty variant of MapPut: the key is given the length of the queue after
\* the append
MapPutNext(m, h, i) ==
    [ x \in (DOMAIN m) \cup { h } |-> IF x = h THEN i + 1 ELSE m[x] ]

\* self.primary_key_to_queue_index_map[ key_hash_code ] = old_queue_length
MapPut(m, h, i) == [ x \in (DOMAIN m) \cup { h } |-> IF x = h THEN i ELSE m[x] ]

\* faulty variant of Overwrite: the resident record is removed and the new
\* one is put at the end of the queue
OverwriteMove(wq, key_index, record) ==
    [ wq EXCEPT !.record_queue =
         Append(SubSeq(@, 1, key_index) \o SubSeq(@, key_index + 2, Len(@)),
                record) ]

\* faulty variant of Overwrite: the resident record is kept
OverwriteNot(wq, key_index, record) == wq

\* self.record_queue[ key_index ] = record
Overwrite(wq, key_index, record) ==
    [ wq EXCEPT !.record_queue[key_index + 1] = record ]

\* faulty variant of WorkerQueue_place: key.is_valid is not looked at
WorkerQueue_place_unchecked(wq, record, key) ==
    LET old_queue_length == Len(wq.record_queue)
        map == wq.primary_key_to_queue_index_map
    IN  IF wq.has_primary_key
        THEN IF key.hash_code \in DOMAIN map
             THEN IF wq.update_on_existing_pk
                  THEN [ dropped |-> FALSE,
                         wq |-> Overwrite(wq, map[key.hash_code], record) ]
                  ELSE [ dropped |-> TRUE, wq |-> wq ]
             ELSE [ dropped |-> FALSE,
                    wq |-> [ wq EXCEPT
                       !.record_queue = Append(@, record),
                       !.primary_key_to_queue_index_map =
                            MapPut(map, key.hash_code, old_queue_length) ] ]
        ELSE [ dropped |-> FALSE,
               wq |-> [ wq EXCEPT !.record_queue = Append(@, record) ] ]

\* faulty variant of WorkerQueue_place: a record whose key is already in
\* the index is appended like a record without a valid key
WorkerQueue_place_again(wq, record, key) ==
    LET old_queue_length == Len(wq.record_queue)
        map == wq.primary_key_to_queue_index_map
    IN  IF wq.has_primary_key /\ key.is_valid /\ key.hash_code \notin DOMAIN map
        THEN [ dropped |-> FALSE,
               wq |-> [ wq EXCEPT
                  !.record_queue = Append(@, record),
                  !.primary_key_to_queue_index_map =
                       MapPut(map, key.hash_code, old_queue_length) ] ]
        ELSE [ dropped |-> FALSE,
               wq |-> [ wq EXCEPT !.record_queue = Append(@, record) ] ]

\* the part of _WorkerQueue.insert before the capacity test: the queue
\* afterwards, or the queue unchanged with dropped = TRUE (return None)
WorkerQueue_place(wq, record, key) ==
    LET old_queue_length == Len(wq.record_queue)
        map == wq.primary_key_to_queue_index_map
    IN  IF wq.has_primary_key /\ key.is_valid
        THEN IF wq.update_on_existing_pk
             THEN IF key.hash_code \in DOMAIN map
                  THEN [ dropped |-> FALSE,
                         wq |-> Overwrite(wq, map[key.hash_code], record) ]
                  ELSE [ dropped |-> FALSE,
                         wq |-> [ wq EXCEPT
                            !.record_queue = Append(@, record),
                            !.primary_key_to_queue_index_map =
                                 MapPut(map, key.hash_code, old_queue_length) ] ]
             ELSE IF key.hash_code \in DOMAIN map
                  THEN [ dropped |-> TRUE, wq |-> wq ]
                  ELSE [ dropped |-> FALSE,
                         wq |-> [ wq EXCEPT
                            !.record_queue = Append(@, record),
                            !.primary_key_to_queue_index_map =
                                 MapPut(map, key.hash_code, old_queue_length) ] ]
        ELSE [ dropped |-> FALSE,
               wq |-> [ wq EXCEPT !.record_queue = Append(@, record) ] ]

\* faulty variant of WorkerQueue_full: the full queue is returned one
\* insert late (len( self.record_queue ) > self.capacity)
WorkerQueue_full_late(wq, placed) ==
    IF placed.dropped THEN << wq, NoBatch >>
    ELSE IF Len(placed.wq.record_queue) > wq.capacity
         THEN WorkerQueue_flush(placed.wq)
    ELSE << placed.wq, NoBatch >>

\* the end of _WorkerQueue.insert: return None for a dropped record, else
\* the capacity test; placed is what the part before it gave
WorkerQueue_full(wq, placed) ==
    IF placed.dropped THEN << wq, NoBatch >>
    ELSE IF Len(placed.wq.record_queue) = wq.capacity
         THEN WorkerQueue_flush(placed.wq)
    ELSE << placed.wq, NoBatch >>

\* _WorkerQueue.insert: <<queue afterwards, returned list or None>>
WorkerQueue_insert(wq, record, key) ==
    WorkerQueue_full(wq, WorkerQueue_place(wq, record, key))

\* ------------------------------------------------------------------------
\* The tables, servers and records of the model
\* ------------------------------------------------------------------------
\* no key column: records go to a random worker
TypeNoKey == << Col("ip", "string", { "ipv4" }), Col("n", "int", {}) >>
\* primary key (ip); the shard key is the primary key
TypePk == << Col("ip", "string", { "ipv4", "primary_key" }), Col("n", "int", {}) >>
\* primary key (ip, n), shard key (n)
TypePkSk == << Col("ip", "string", { "ipv4", "primary_key" }),
               Col("n", "int", { "primary_key", "shard_key" }) >>
\* shard key (n) only
TypeSk == << Col("ip", "string", { "ipv4" }), Col("n", "int", { "shard_key" }) >>

RecordTypes == { TypeNoKey, TypePk, TypePkSk, TypeSk }

TwoWorkers == << << Url(HeadUrl) >>, << Url("w1") >>, << Url("w2") >> >>

\* multi-head off
ServerOff == Server("FALSE", TwoWorkers, << 2, 2, 1 >>)
\* two worker ranks, shards on ranks 1 and 2
ServerTwo == Server("TRUE", TwoWorkers, << 2, 2, 1 >>)
\* two worker ranks, and a shard on a rank 3 that has no URL
ServerEdge == Server("TRUE", TwoWorkers, << 2, 3, 1 >>)
Servers == { ServerOff, ServerTwo, ServerEdge }

\* the column values <<ip, n>> of the records the caller submits
ValsA == << Ipv4Val(10, 0, 0, 1), IntVal(0) >>
ValsB == << Ipv4Val(10, 0, 0, 1), IntVal(1) >>
ValsZ == << Ipv4Val(0, 0, 0, 0), IntVal(0) >>
ValsBad == << MalformedVal, IntVal(0) >>

\* a record is its column values: records with equal values are equal, as
\* dicts and OrderedDicts are
RecordVals == { ValsA, ValsB, ValsZ, ValsBad }

\* records with None in a key column
ValsNullN == << Ipv4Val(0, 0, 0, 0), NullVal >>
ValsNullIp == << NullVal, IntVal(0) >>

\* the records of the runs that submit None next to zero
NullableRecordVals == { ValsA, ValsZ, ValsNullN, ValsNullIp }

\* ------------------------------------------------------------------------
\* State
\* ------------------------------------------------------------------------
VARIABLES
    server,         \* the server the clients talk to
    rtype,          \* the record type of the table
    ing,            \* the GPUdbIngestor object
    worker_queues,  \* GPUdbIngestor.worker_queues
    ret,            \* the RecordRetriever object
    nsubmitted,     \* how many records the caller has passed to the ingestor
    submitted,      \* the set of the records passed to the ingestor so far
    shipped_ok,     \* the set of the records of batches whose call returned OK
    rpcs,           \* the insert_records calls the last call made on clients
    discarded,      \* records the last call dropped as duplicates or overwrote
    qlog,           \* per queue: the records passed to insert since its reset
    returned,       \* what the last direct call of a worker queue returned
    built,          \* what the last direct call of a key builder returned
    last            \* the outcome of the last call of the public interface

vars == << server, rtype, ing, worker_queues, ret, nsubmitted, submitted,
           shipped_ok, rpcs, discarded, qlog, returned, built, last >>

\* The two _RecordKeyBuilder objects a constructor makes for a record type,
\* and the keys they build for the records of the model, tabulated.  A
\* builder field of an object holds "None", "pk" or "shard": which of the two.
Builders ==
    [ rt \in RecordTypes |->
        [ which \in { "pk", "shard" } |-> RecordKeyBuilder(rt, which = "pk") ] ]

BuiltKeys ==
    [ rt \in RecordTypes |->
        [ which \in { "pk", "shard" } |->
            [ vals \in RecordVals \cup NullableRecordVals |->
                build(Builders[rt][which], vals) ] ] ]

BuilderOf(which) == Builders[rtype][which]

NoIngestor ==
    [ status |-> "none", batch_size |-> 0, is_table_replicated |-> FALSE,
      primary_key_builder |-> "None", shard_key_builder |-> "None",
      num_ranks |-> 0, is_multihead_enabled |-> FALSE,
      routing_table |-> << >>, routing_table_set |-> FALSE,
      count_inserted |-> 0, count_updated |-> 0 ]

NoRetriever ==
    [ status |-> "none", shard_key_builder |-> "None", num_queues |-> 0,
      num_ranks |-> 0, is_multihead_enabled |-> FALSE,
      routing_table |-> << >>, routing_table_set |-> FALSE ]

\* the outcome of a call: the exception raised ("ok" for none), the records
\* an InsertionException carries, the records passed in, and the worker index
\* it selected last, if it selected one
Outcome(op, exc, records, arg, routed, worker_index) ==
    [ op |-> op, exc |-> exc, records |-> records, arg |-> arg,
      routed |-> routed, worker_index |-> worker_index ]

\* what a call of insert or flush on the worker queue at position w gave:
\* the list it returned (none = TRUE for None), the records passed to
\* insert since the queue's reset before the call (with the one of this
\* call) and the queue as it was before the call
Returned(op, w, batch, log, before) ==
    [ op |-> op, w |-> w, none |-> batch.none, records |-> batch.records,
      log |-> log, before |-> before ]

NoReturn == [ op |-> "none", w |-> 0, none |-> TRUE, records |-> << >>,
              log |-> << >>, before |-> << >> ]

\* what a call of build or build_key_with_shard_values_only gave: the
\* builder, the values passed in and the key returned (or the error raised)
Built(op, b, values, key) == [ op |-> op, b |-> b, values |-> values, key |-> key ]

NoBuilt == [ op |-> "none", b |-> << >>, values |-> << >>, key |-> NoKey ]

Init ==
    /\ server \in Servers
    /\ rtype \in RecordTypes
    /\ ing = NoIngestor
    /\ worker_queues = << >>
    /\ ret = NoRetriever
    /\ nsubmitted = 0
    /\ submitted = {}
    /\ shipped_ok = {}
    /\ rpcs = << >>
    /\ discarded = {}
    /\ qlog = << >>
    /\ returned = NoReturn
    /\ built = NoBuilt
    /\ last = Outcome("none", "ok", << >>, << >>, FALSE, 0)

\* ------------------------------------------------------------------------
\* Construction
\* ------------------------------------------------------------------------
\* the workers argument of the constructors: None, or a GPUdbWorkerList the
\* caller built for this server, for all ranks or for the head node only
WorkersArgs == { "None", "all", "head" }

SuppliedWorkers(arg) == GPUdbWorkerList(server, NoRegex, arg = "head")

\* [(rank-1) for rank in shard_info[ "rank" ]]
RoutingTableOf(srv) ==
    [ k \in 1..Len(srv.shard_ranks) |-> srv.shard_ranks[k] - 1 ]

\* the check "enough worker URLs are specified" of both constructors
NotEnoughWorkers(routing_table, num_ranks) ==
    \E k \in 1..Len(routing_table) : routing_table[k] > num_ranks

\* faulty variant of ShardMapFetched: a replicated table gets a routing
\* table too
ShardMapFetchedReplicated(is_multihead_enabled, is_table_replicated, pkb, skb) ==
    is_multihead_enabled /\ (pkb # "None" \/ skb # "None")

\* the condition under which GPUdbIngestor.__init__ sets the routing table
\* (calls admin_show_shards); pkb and skb are the key builders it kept
ShardMapFetched(is_multihead_enabled, is_table_replicated, pkb, skb) ==
    is_multihead_enabled /\ ~is_table_replicated
        /\ (pkb # "None" \/ skb # "None")

\* GPUdbIngestor.__init__ after the two key builders shard0 and pk0 and the
\* worker list wl are made: the ingestor and its worker queues
IngestorOf(batch_size, update_option, is_table_replicated, shard0, pk0, wl) ==
    LET pkb    == IF has_key(pk0) THEN "pk" ELSE "None"
        skb    == IF has_key(pk0)
                  THEN IF ~has_key(shard0) \/ has_same_key(shard0, pk0)
                       THEN "pk" ELSE "shard"
                  ELSE IF has_key(shard0) THEN "shard" ELSE "None"
        has_primary_key == pkb # "None"
        update_on_existing_pk == (update_option = "true")
        urls   == wl.worker_urls
        wqs    == [ w \in 1..Len(urls) |->
                      WorkerQueue(urls[w], batch_size, has_primary_key,
                                  update_on_existing_pk) ]
        fetch  == ShardMapFetched(wl.is_multihead_enabled, is_table_replicated,
                                  pkb, skb)
        table  == IF fetch THEN RoutingTableOf(server) ELSE << >>
        status == IF shard0.status # "ok" THEN shard0.status
                  ELSE IF pk0.status # "ok" THEN pk0.status
                  ELSE IF wl.status # "ok" THEN wl.status
                  ELSE IF fetch /\ NotEnoughWorkers(table, Len(urls))
                       THEN "GPUdbException"
                  ELSE "ok"
    IN  [ obj |-> [ status |-> status,
                    batch_size |-> batch_size,
                    is_table_replicated |-> is_table_replicated,
                    primary_key_builder |-> pkb,
                    shard_key_builder |-> skb,
                    num_ranks |-> Len(urls),
                    is_multihead_enabled |-> wl.is_multihead_enabled,
                    routing_table |-> table,
                    routing_table_set |-> fetch,
                    count_inserted |-> 0,
                    count_updated |-> 0 ],
          queues |-> wqs ]

\* GPUdbIngestor.__init__
GPUdbIngestor(batch_size, update_option, workers, is_table_replicated) ==
    IngestorOf(batch_size, update_option, is_table_replicated,
               BuilderOf("shard"), BuilderOf("pk"),
               IF workers = "None"
               THEN GPUdbWorkerList(server, NoRegex, is_table_replicated)
               ELSE SuppliedWorkers(workers))

IngestorInit ==
    /\ ing.status = "none"
    /\ \E batch_size \in 1..MaxBatch, update_option \in { "None", "true", "false" },
          workers \in WorkersArgs, is_table_replicated \in BOOLEAN :
          /\ workers # "None" => SuppliedWorkers(workers).status = "ok"
          /\ \E made \in { GPUdbIngestor(batch_size, update_option, workers,
                                         is_table_replicated) } :
                 /\ ing' = made.obj
                 /\ worker_queues' = IF made.obj.status = "ok" THEN made.queues ELSE << >>
                 /\ qlog' = IF made.obj.status = "ok"
                            THEN [ w \in 1..Len(made.queues) |-> << >> ] ELSE << >>
                 /\ last' = Outcome("GPUdbIngestor", made.obj.status, << >>, << >>,
                                    FALSE, 0)
    /\ UNCHANGED << server, rtype, ret, nsubmitted, submitted, shipped_ok,
                    rpcs, discarded, returned, built >>

\* faulty variant of RetrieverKeyChoice: the primary key is preferred
RetrieverKeyChoicePkFirst(shard0, pk0) ==
    IF has_key(pk0) THEN "pk"
    ELSE IF has_key(shard0) THEN "shard" ELSE "None"

\* the shard key builder RecordRetriever.__init__ keeps: the shard key's,
\* else the primary key's, else None
RetrieverKeyChoice(shard0, pk0) ==
    IF has_key(shard0) THEN "shard"
    ELSE IF has_key(pk0) THEN "pk" ELSE "None"

\* RecordRetriever.__init__ after the key builders shard0 and pk0 and the
\* worker list wl are made
RetrieverOf(shard0, pk0, wl) ==
    LET skb    == RetrieverKeyChoice(shard0, pk0)
        urls   == wl.worker_urls
        fetch  == wl.is_multihead_enabled /\ skb # "None"
        table  == IF fetch THEN RoutingTableOf(server) ELSE << >>
        status == IF shard0.status # "ok" THEN shard0.status
                  ELSE IF (~has_key(shard0)) /\ pk0.status # "ok" THEN pk0.status
                  ELSE IF wl.status # "ok" THEN wl.status
                  ELSE IF fetch /\ NotEnoughWorkers(table, Len(urls))
                       THEN "GPUdbException"
                  ELSE "ok"
    IN  [ status |-> status,
          shard_key_builder |-> skb,
          num_queues |-> Len(urls),
          num_ranks |-> Len(urls),
          is_multihead_enabled |-> wl.is_multihead_enabled,
          routing_table |-> table,
          routing_table_set |-> fetch ]

\* RecordRetriever.__init__
RecordRetriever(workers) ==
    RetrieverOf(BuilderOf("shard"), BuilderOf("pk"),
                IF workers = "None"
                THEN GPUdbWorkerList(server, NoRegex, FALSE)
                ELSE SuppliedWorkers(workers))

RetrieverInit ==
    /\ ret.status = "none"
    /\ \E workers \in WorkersArgs :
          /\ workers # "None" => SuppliedWorkers(workers).status = "ok"
          /\ \E made \in { RecordRetriever(workers) } :
                /\ ret' = made
                /\ last' = Outcome("RecordRetriever", made.status, << >>, << >>,
                                   FALSE, 0)
    /\ UNCHANGED << server, rtype, ing, worker_queues, nsubmitted, submitted,
                    shipped_ok, rpcs, discarded, qlog, returned, built >>

\* ------------------------------------------------------------------------
\* Ingestion.  The operations work on a record m of the fields they change:
\* wqs (worker queues), ci/cu (count_inserted/count_updated), rpcs (the
\* insert_records calls made in this call), disc (discarded), log (qlog).
\* ------------------------------------------------------------------------
\* what the client's insert_records does: reply with status OK, reply with
\* another status, or raise (a transport error)
RpcKinds == { "OK", "ERROR", "raise" }

\* the replies of one call of the interface: OK with the counts of reply,
\* except that the call numbered fail_at gets fail_kind
ReplyOf(n, fail_at, fail_kind) == IF n = fail_at THEN fail_kind ELSE "OK"

\* seq[ i ] for a Python list: the position (from 1), or 0 for IndexError
PyIndex(len, i) ==
    IF 0 <= i /\ i < len THEN i + 1
    ELSE IF i < 0 /\ -len <= i THEN len + i + 1
    ELSE 0

Machine ==
    [ wqs |-> worker_queues, ci |-> ing.count_inserted,
      cu |-> ing.count_updated, rpcs |-> << >>, disc |-> {}, log |-> qlog ]

Raised(m, exc, records) == [ m |-> m, exc |-> exc, records |-> records ]

\* the same with the worker index the call selected, if it came that far
Result(m, exc, records, routed, worker_index) ==
    [ m |-> m, exc |-> exc, records |-> records, routed |-> routed,
      worker_index |-> worker_index ]

\* faulty variant of DoFlush: a batch whose call failed is sent once more
DoFlushRetry(m, queue, w, log, reply, fail_at, fail_kind) ==
    IF queue = << >> THEN Raised(m, "ok", << >>)
    ELSE LET n    == Len(m.rpcs) + 1
             kind == ReplyOf(n, fail_at, fail_kind)
             call == [ worker |-> w, data |-> queue, kind |-> kind, log |-> log,
                       reply |-> IF kind = "raise" THEN << 0, 0 >> ELSE reply ]
             sent == [ m EXCEPT !.rpcs = Append(@, call) ]
         IN  CASE kind = "OK" ->
                    Raised([ sent EXCEPT !.ci = @ + reply[1], !.cu = @ + reply[2] ],
                           "ok", << >>)
               [] kind = "ERROR" ->
                    Raised([ sent EXCEPT !.rpcs = Append(@, call) ],
                           "InsertionException", queue)
               [] kind = "raise" -> Raised(sent, "GPUdbException", << >>)

\* faulty variant of DoFlush: the counts are taken from the reply before
\* its status is looked at
DoFlushCountFirst(m, queue, w, log, reply, fail_at, fail_kind) ==
    IF queue = << >> THEN Raised(m, "ok", << >>)
    ELSE LET n    == Len(m.rpcs) + 1
             kind == ReplyOf(n, fail_at, fail_kind)
             call == [ worker |-> w, data |-> queue, kind |-> kind, log |-> log,
                       reply |-> IF kind = "raise" THEN << 0, 0 >> ELSE reply ]
             sent == [ m EXCEPT !.rpcs = Append(@, call) ]
             counted == [ sent EXCEPT !.ci = @ + reply[1], !.cu = @ + reply[2] ]
         IN  CASE kind = "OK" -> Raised(counted, "ok", << >>)
               [] kind = "ERROR" -> Raised(counted, "InsertionException", queue)
               [] kind = "raise" -> Raised(sent, "GPUdbException", << >>)

\* GPUdbIngestor.__flush( queue, worker_gpudb ); w is the queue whose client
\* is used, log the records inserted into it since its reset.  A call is
\* recorded with the counts its reply carried (none when the client raised)
DoFlush(m, queue, w, log, reply, fail_at, fail_kind) ==
    IF queue = << >> THEN Raised(m, "ok", << >>)
    ELSE LET n    == Len(m.rpcs) + 1
             kind == ReplyOf(n, fail_at, fail_kind)
             sent == [ m EXCEPT !.rpcs =
                        Append(@, [ worker |-> w, data |-> queue,
                                    kind |-> kind, log |-> log,
                                    reply |-> IF kind = "raise" THEN << 0, 0 >>
                                              ELSE reply ]) ]
         IN  CASE kind = "OK" ->
                    Raised([ sent EXCEPT !.ci = @ + reply[1], !.cu = @ + reply[2] ],
                           "ok", << >>)
               [] kind = "ERROR" -> Raised(sent, "InsertionException", queue)
               [] kind = "raise" -> Raised(sent, "GPUdbException", << >>)

\* the records a queue loses when it takes record: the record itself when it
\* is dropped, the resident record when it is overwritten
Loses(wq, record, key) ==
    LET map == wq.primary_key_to_queue_index_map
    IN  IF wq.has_primary_key /\ key.is_valid /\ key.hash_code \in DOMAIN map
        THEN IF wq.update_on_existing_pk
             THEN { wq.record_queue[map[key.hash_code] + 1] }
             ELSE { record }
        ELSE {}

\* the result of __flush with the worker index insert_record had selected
Routed(r, worker_index) ==
    Result(r.m, r.exc, r.records, TRUE, worker_index)

\* GPUdbIngestor.insert_record from "if queue:" on; ins is what
\* worker_queue.insert returned for the worker queue at position w
InsertQueued(m, record, primary_key, worker_index, w, ins, reply, fail_at, fail_kind) ==
    LET log == Append(m.log[w], record)
        m1  == [ m EXCEPT !.wqs[w] = ins[1],
                          !.disc = @ \cup Loses(m.wqs[w], record, primary_key),
                          !.log[w] = IF ins[2].none THEN log ELSE << >> ]
    IN  IF ins[2].none THEN Result(m1, "ok", << >>, TRUE, worker_index)
        ELSE Routed(DoFlush(m1, ins[2].records, w, log, reply, fail_at, fail_kind),
                    worker_index)

\* GPUdbIngestor.insert_record from "worker_queue = self.worker_queues[
\* worker_index ]" on; w is the position PyIndex gives for worker_index
InsertRouted(m, record, primary_key, worker_index, w, reply, fail_at, fail_kind) ==
    IF w = 0 THEN Result(m, "IndexError", << >>, TRUE, worker_index)
    ELSE InsertQueued(m, record, primary_key, worker_index, w,
                      WorkerQueue_insert(m.wqs[w], record, primary_key),
                      reply, fail_at, fail_kind)

\* the worker index insert_record selects; rand is what random.randint gives
WorkerIndexOf(shard_key, rand) ==
    IF shard_key.status = "None" THEN rand
    ELSE route(shard_key, ing.routing_table)

\* GPUdbIngestor.insert_record after the keys are built (a key whose status
\* is an error stands for the exception its build raised)
InsertKeyed(m, record, primary_key, shard_key, rand, reply, fail_at, fail_kind) ==
    IF IsError(primary_key.status)
    THEN Result(m, primary_key.status, << >>, FALSE, 0)
    ELSE IF IsError(shard_key.status)
    THEN Result(m, shard_key.status, << >>, FALSE, 0)
    ELSE InsertRouted(m, record, primary_key, WorkerIndexOf(shard_key, rand),
                      PyIndex(Len(m.wqs), WorkerIndexOf(shard_key, rand)),
                      reply, fail_at, fail_kind)

\* the primary key insert_record builds for a record (None without a
\* primary key builder)
PkKeyOf(record) ==
    IF ing.primary_key_builder # "None"
    THEN BuiltKeys[rtype][ing.primary_key_builder][record]
    ELSE NoKey

\* the shard key insert_record builds for a record
ShardKeyOf(record) ==
    IF ing.shard_key_builder # "None"
    THEN BuiltKeys[rtype][ing.shard_key_builder][record]
    ELSE NoKey

\* GPUdbIngestor.insert_record; rand is the value random.randint returns
DoInsertRecord(m, record, rand, reply, fail_at, fail_kind) ==
    InsertKeyed(m, record, PkKeyOf(record), ShardKeyOf(record), rand,
                reply, fail_at, fail_kind)

\* faulty variant of remaining_records: the rest of the list is left out
no_remaining_records(records, i) == << >>

\* records[ records.index( record ) : ], record being records[ i ]
remaining_records(records, i) ==
    SubSeq(records, IndexOf(records, records[i]), Len(records))

RECURSIVE InsertLoop(_, _, _, _, _, _, _)
RECURSIVE InsertNext(_, _, _, _, _, _, _)
\* the body of the loop of insert_records after insert_record gave r for
\* the record at position i
InsertNext(r, records, i, rands, reply, fail_at, fail_kind) ==
    IF r.exc = "ok"
    THEN IF i = Len(records) THEN r
         ELSE InsertLoop(r.m, records, i + 1, rands, reply, fail_at, fail_kind)
    ELSE IF r.exc = "InsertionException"
    THEN [ r EXCEPT !.records = @ \o remaining_records(records, i) ]
    ELSE r

\* the loop of GPUdbIngestor.insert_records from position i on
InsertLoop(m, records, i, rands, reply, fail_at, fail_kind) ==
    IF i > Len(records) THEN Result(m, "ok", << >>, FALSE, 0)
    ELSE InsertNext(DoInsertRecord(m, records[i], rands[i], reply, fail_at, fail_kind),
                    records, i, rands, reply, fail_at, fail_kind)

\* GPUdbIngestor.insert_records
DoInsertRecords(m, records, rands, reply, fail_at, fail_kind) ==
    IF records = << >> THEN Result(m, "ok", << >>, FALSE, 0)
    ELSE InsertLoop(m, records, 1, rands, reply, fail_at, fail_kind)

\* queue = worker.flush(); self.__flush( queue, worker.get_gpudb() ) for
\* the worker queue at position w
FlushWorker(m, w, fl, reply, fail_at, fail_kind) ==
    DoFlush([ m EXCEPT !.wqs[w] = fl[1], !.log[w] = << >> ], fl[2].records, w,
            m.log[w], reply, fail_at, fail_kind)

RECURSIVE FlushLoop(_, _, _, _, _)
RECURSIVE FlushNext(_, _, _, _, _)
\* the loop of flush after __flush gave r for the worker queue w
FlushNext(r, w, reply, fail_at, fail_kind) ==
    IF r.exc = "ok" THEN FlushLoop(r.m, w + 1, reply, fail_at, fail_kind)
    ELSE r

\* the loop of GPUdbIngestor.flush over the worker queues from w on
FlushLoop(m, w, reply, fail_at, fail_kind) ==
    IF w > Len(m.wqs) THEN Raised(m, "ok", << >>)
    ELSE FlushNext(FlushWorker(m, w, WorkerQueue_flush(m.wqs[w]),
                               reply, fail_at, fail_kind),
                   w, reply, fail_at, fail_kind)

\* faulty variant of DoFlushAll: only the first worker queue is flushed
DoFlushFirst(m, reply, fail_at, fail_kind) ==
    FlushWorker(m, 1, WorkerQueue_flush(m.wqs[1]), reply, fail_at, fail_kind)

\* GPUdbIngestor.flush
DoFlushAll(m, reply, fail_at, fail_kind) == FlushLoop(m, 1, reply, fail_at, fail_kind)

\* ------------------------------------------------------------------------
\* The calls of the public interface
\* ------------------------------------------------------------------------
Replies == { c \in (0..MaxCount) \X (0..MaxCount) : c[1] + c[2] = MaxCount }

\* no failure, or the k-th insert_records call of the operation fails
Failures(k) == { << 0, "OK" >> } \cup ((1..k) \X (RpcKinds \ { "OK" }))

\* the replies that matter to an operation that makes k calls when none fails
RepliesFor(k) == IF k = 0 THEN { << 0, 0 >> } ELSE Replies

\* the values random.randint( 0, num_ranks - 1 ) can return, when it is called
Rands == IF ing.shard_key_builder = "None"
         THEN 0..(ing.num_ranks - 1) ELSE { 0 }

\* the records of the batches of calls whose reply was OK
OkRecords(calls) ==
    UNION { Range(calls[k].data) : k \in { j \in 1..Len(calls) : calls[j].kind = "OK" } }

Commit(r) ==
    /\ worker_queues' = r.m.wqs
    /\ ing' = [ ing EXCEPT !.count_inserted = r.m.ci, !.count_updated = r.m.cu ]
    /\ rpcs' = r.m.rpcs
    /\ shipped_ok' = shipped_ok \cup OkRecords(r.m.rpcs)
    /\ discarded' = r.m.disc
    /\ qlog' = r.m.log

\* insert_record( record ) with a record of the set records
InsertRecordOf(records) ==
    /\ ing.status = "ok"
    /\ nsubmitted < MaxSubmit
    /\ \E record \in records, rand \in Rands :
       \E k \in { Len(DoInsertRecord(Machine, record, rand, << 0, 0 >>, 0, "OK").m.rpcs) } :
       \E reply \in RepliesFor(k), f \in Failures(k) :
          \E r \in { DoInsertRecord(Machine, record, rand, reply, f[1], f[2]) } :
              /\ Commit(r)
              /\ nsubmitted' = nsubmitted + 1
              /\ submitted' = submitted \cup { record }
              /\ last' = Outcome("insert_record", r.exc, r.records, << record >>,
                                 r.routed, r.worker_index)
    /\ UNCHANGED << server, rtype, ret, returned, built >>

InsertRecord == InsertRecordOf(RecordVals)

\* the lists of 1..n records
ListsOf(n) ==
    UNION { [ 1..k -> RecordVals ] : k \in 1..n }

InsertRecords ==
    /\ ing.status = "ok"
    /\ nsubmitted < MaxSubmit
    /\ \E records \in { l \in ListsOf(MaxList) : nsubmitted + Len(l) <= MaxSubmit } :
       \E rands \in [ 1..Len(records) -> Rands ] :
       \E k \in { Len(DoInsertRecords(Machine, records, rands, << 0, 0 >>, 0, "OK").m.rpcs) } :
       \E reply \in RepliesFor(k), f \in Failures(k) :
          /\ nsubmitted + Len(records) <= MaxSubmit
          /\ \E r \in { DoInsertRecords(Machine, records, rands, reply, f[1], f[2]) } :
                /\ Commit(r)
                /\ nsubmitted' = nsubmitted + Len(records)
                /\ submitted' = submitted \cup Range(records)
                /\ last' = Outcome("insert_records", r.exc, r.records, records,
                                   r.routed, r.worker_index)
    /\ UNCHANGED << server, rtype, ret, returned, built >>

Flush ==
    /\ ing.status = "ok"
    /\ \E k \in { Len(DoFlushAll(Machine, << 0, 0 >>, 0, "OK").m.rpcs) } :
       \E reply \in RepliesFor(k), f \in Failures(k) :
          \E r \in { DoFlushAll(Machine, reply, f[1], f[2]) } :
              /\ Commit(r)
              /\ last' = Outcome("flush", r.exc, r.records, << >>, FALSE, 0)
    /\ UNCHANGED << server, rtype, ret, nsubmitted, submitted, returned, built >>

\* the values of the key columns of a builder in a record's column values
KeyValues(b, vals) ==
    [ k \in 1..Len(b.routing_key_indices) |-> vals[b.routing_key_indices[k]] ]

\* RecordRetriever.get_records_by_key with a list of key values: the
\* exception raised and the worker index selected
LookupRouted(worker_index) ==
    IF PyIndex(ret.num_queues, worker_index) = 0
    THEN [ exc |-> "IndexError", routed |-> TRUE, worker_index |-> worker_index ]
    ELSE [ exc |-> "ok", routed |-> TRUE, worker_index |-> worker_index ]

\* get_records_by_key after the shard key is built
LookupKeyed(shard_key) ==
    IF IsError(shard_key.status)
    THEN [ exc |-> shard_key.status, routed |-> FALSE, worker_index |-> 0 ]
    ELSE LookupRouted(route(shard_key, ret.routing_table))

DoGetRecordsByKey(key_values) ==
    IF ret.shard_key_builder = "None"
    THEN [ exc |-> "GPUdbException", routed |-> FALSE, worker_index |-> 0 ]
    ELSE LookupKeyed(build_key_with_shard_values_only(
                         BuilderOf(ret.shard_key_builder), key_values))

GetRecordsByKey ==
    /\ ret.status = "ok"
    /\ \E vals \in RecordVals :
       \E key_values \in { IF ret.shard_key_builder = "None" THEN << >>
                           ELSE KeyValues(BuilderOf(ret.shard_key_builder), vals) } :
       \E r \in { DoGetRecordsByKey(key_values) } :
          last' = Outcome("get_records_by_key", r.exc, << >>, key_values,
                          r.routed, r.worker_index)
    /\ UNCHANGED << server, rtype, ing, worker_queues, ret, nsubmitted,
                    submitted, shipped_ok, rpcs, discarded, qlog, returned, built >>

\* an ingestor and its calls
Next ==
    \/ IngestorInit
    \/ InsertRecord
    \/ InsertRecords
    \/ Flush

Spec == Init /\ [][Next]_vars

\* insert_record of records with None or zero in the key columns
InsertNullableRecord == InsertRecordOf(NullableRecordVals)

\* an ingestor and insert_record calls whose key values are None or zero
NextNull ==
    \/ IngestorInit
    \/ InsertNullableRecord
    \/ Flush

SpecNull == Init /\ [][NextNull]_vars

\* insert_record next to a retriever
LookupInsertRecord ==
    /\ nsubmitted < MaxLookupSubmit
    /\ InsertRecord

\* an ingestor and a retriever for the same table and server, inserts and
\* lookups
NextLookup ==
    \/ IngestorInit
    \/ RetrieverInit
    \/ LookupInsertRecord
    \/ GetRecordsByKey

SpecLookup == Init /\ [][NextLookup]_vars

\* ------------------------------------------------------------------------
\* A retriever called with lists and dicts of key values: the checks of the
\* key values, the filter expression and the get_records call
\* ------------------------------------------------------------------------
\* the key_values argument: a list of values, or a dict from column names
\* to values
ListArg(vals) == [ type |-> "list", items |-> vals ]
DictArg(f) == [ type |-> "dict", items |-> f ]

\* len( key_values )
ArgLen(key_values) ==
    IF key_values.type = "list" THEN Len(key_values.items)
    ELSE Cardinality(DOMAIN key_values.items)

\* the checks that open build_expression_with_key_values_only and
\* build_key_with_shard_values_only: the number of values, and a dict turned
\* into the list of the values in the order of the key columns
key_values_list(b, key_values) ==
    IF ArgLen(key_values) # Len(b.key_columns_names)
    THEN [ status |-> "GPUdbException", list |-> << >> ]
    ELSE IF key_values.type = "dict"
    THEN IF \E k \in 1..Len(b.key_columns_names) :
                b.key_columns_names[k] \notin DOMAIN key_values.items
         THEN [ status |-> "GPUdbException", list |-> << >> ]
         ELSE [ status |-> "ok",
                list |-> [ k \in 1..Len(b.key_columns_names) |->
                             key_values.items[b.key_columns_names[k]] ] ]
    ELSE [ status |-> "ok", list |-> key_values.items ]

_string_types ==
    { "char1", "char2", "char4", "char8", "char16", "char32", "char64",
      "char128", "char256", "date", "datetime", "decimal", "ipv4", "time",
      "string" }

\* one conjunct of the expression: is_null(n), (n = "d") or (n = d)
ExpressionTerm(col_name, col_type, key_value) ==
    [ n |-> col_name,
      form |-> IF key_value = NullVal THEN "is_null"
               ELSE IF col_type \in _string_types THEN "quoted" ELSE "plain",
      d |-> key_value ]

\* _RecordKeyBuilder.build_expression_with_key_values_only: the conjuncts
\* joined by " and ", as their sequence
build_expression_with_key_values_only(b, key_values) ==
    LET checked == key_values_list(b, key_values)
    IN  IF b.key_buffer_size = 0 THEN [ status |-> "None", terms |-> << >> ]
        ELSE IF checked.status # "ok"
        THEN [ status |-> checked.status, terms |-> << >> ]
        ELSE [ status |-> "ok",
               terms |-> [ i \in 1..Len(b.routing_key_indices) |->
                             ExpressionTerm(b.key_columns_names[i], b.key_types[i],
                                            checked.list[i]) ] ]

\* the options of the get_records call: the expression is the key's, and-ed
\* with the given one if that is not empty
LookupOptions(key_terms, expression) ==
    [ expression |-> [ key |-> key_terms, given |-> expression ],
      fast_index_lookup |-> "true" ]

\* the get_records call on the client of worker queue worker_index (from 0)
GetRecordsCall(worker_index, options, reply) ==
    [ endpoint |-> "get_records", worker |-> worker_index, limit |-> "END_OF_SET",
      options |-> options, get_record_type |-> FALSE, reply |-> reply ]

\* RecordRetriever.get_records_by_key: the exception raised, the worker
\* index selected and the get_records calls made; reply is the status of
\* the response of the call
get_records_by_key(key_values, expression, reply) ==
    LET b        == BuilderOf(ret.shard_key_builder)
        built_e  == build_expression_with_key_values_only(b, key_values)
        \* the key builder repeats the checks of the expression builder
        routedTo == DoGetRecordsByKey(key_values_list(b, key_values).list)
    IN  IF ret.shard_key_builder = "None"
        THEN [ exc |-> "GPUdbException", routed |-> FALSE, worker_index |-> 0,
               calls |-> << >> ]
        ELSE IF built_e.status # "ok"
        THEN [ exc |-> built_e.status, routed |-> FALSE, worker_index |-> 0,
               calls |-> << >> ]
        ELSE IF routedTo.exc # "ok"
        THEN [ exc |-> routedTo.exc, routed |-> routedTo.routed,
               worker_index |-> routedTo.worker_index, calls |-> << >> ]
        ELSE [ exc |-> IF reply = "OK" THEN "ok" ELSE "GPUdbException",
               routed |-> TRUE, worker_index |-> routedTo.worker_index,
               calls |-> << GetRecordsCall(routedTo.worker_index,
                                           LookupOptions(built_e.terms, expression),
                                           reply) >> ]

\* the shapes of the key values passed in for a list of values of the key
\* columns: the list, the list without its last value, the list with one
\* value more, the dict by column name, the dict with one name replaced by
\* another, the dict with one entry more
KeyValueShapes == { "list", "short", "long", "dict", "renamed", "extra" }

NamedValues(names, vals, other) ==
    [ n \in Range(names) \cup other |->
        IF n \in Range(names) THEN vals[IndexOf(names, n)] ELSE NullVal ]

KeyValuesArg(names, vals, shape) ==
    CASE shape = "list"    -> ListArg(vals)
      [] shape = "short"   -> ListArg(SubSeq(vals, 1, Len(vals) - 1))
      [] shape = "long"    -> ListArg(Append(vals, NullVal))
      [] shape = "dict"    -> DictArg(NamedValues(names, vals, {}))
      [] shape = "renamed" -> DictArg(NamedValues(Tail(names), Tail(vals), { "other" }))
      [] shape = "extra"   -> DictArg(NamedValues(names, vals, { "other" }))

GetRecordsByKeyArgs ==
    /\ ret.status = "ok"
    /\ \E vals \in RecordVals, shape \in KeyValueShapes,
          expression \in { "", "n > 0" }, reply \in { "OK", "ERROR" } :
       \E b \in { BuilderOf(IF ret.shard_key_builder = "None" THEN "pk"
                            ELSE ret.shard_key_builder) } :
       \E key_values \in { IF ret.shard_key_builder = "None"
                           THEN KeyValuesArg(<< "ip" >>, << vals[1] >>, shape)
                           ELSE KeyValuesArg(b.key_columns_names,
                                             KeyValues(b, vals), shape) } :
       \E r \in { get_records_by_key(key_values, expression, reply) } :
          /\ rpcs' = r.calls
          /\ last' = Outcome("get_records_by_key", r.exc, << >>,
                             << key_values, expression >>, r.routed, r.worker_index)
    /\ UNCHANGED << server, rtype, ing, worker_queues, ret, nsubmitted,
                    submitted, shipped_ok, discarded, qlog, returned, built >>

NextGet ==
    \/ RetrieverInit
    \/ GetRecordsByKeyArgs

SpecGet == Init /\ [][NextGet]_vars

\* ------------------------------------------------------------------------
\* A worker queue called directly: the queues of an ingestor, insert with
\* the primary key insert_record builds for the record, and flush
\* ------------------------------------------------------------------------
QueueIngestorInit ==
    /\ ing.status = "none"
    /\ \E capacity \in 1..MaxCapacity, update_option \in { "true", "false" },
          is_table_replicated \in BOOLEAN :
          \E made \in { GPUdbIngestor(capacity, update_option, "None",
                                      is_table_replicated) } :
              /\ ing' = made.obj
              /\ worker_queues' = IF made.obj.status = "ok" THEN made.queues ELSE << >>
              /\ qlog' = IF made.obj.status = "ok"
                         THEN [ w \in 1..Len(made.queues) |-> << >> ] ELSE << >>
              /\ last' = Outcome("GPUdbIngestor", made.obj.status, << >>, << >>,
                                 FALSE, 0)
    /\ UNCHANGED << server, rtype, ret, nsubmitted, submitted, shipped_ok,
                    rpcs, discarded, returned, built >>

\* worker_queue.insert( record, primary_key ) on the queue at position w
QueueInsert ==
    /\ ing.status = "ok"
    /\ nsubmitted < MaxInserts
    /\ \E w \in DOMAIN worker_queues, record \in RecordVals :
       \E ins \in { WorkerQueue_insert(worker_queues[w], record, PkKeyOf(record)) } :
          /\ worker_queues' = [ worker_queues EXCEPT ![w] = ins[1] ]
          /\ qlog' = [ qlog EXCEPT ![w] = IF ins[2].none THEN Append(@, record)
                                          ELSE << >> ]
          /\ returned' = Returned("insert", w, ins[2], Append(qlog[w], record),
                                  worker_queues[w])
          /\ discarded' = Loses(worker_queues[w], record, PkKeyOf(record))
          /\ nsubmitted' = nsubmitted + 1
          /\ submitted' = submitted \cup { record }
          /\ last' = Outcome("_WorkerQueue.insert", "ok", << >>, << record >>, FALSE, 0)
    /\ UNCHANGED << server, rtype, ing, ret, shipped_ok, rpcs, built >>

\* worker.flush() on the queue at position w
QueueFlush ==
    /\ ing.status = "ok"
    /\ \E w \in DOMAIN worker_queues :
       \E fl \in { WorkerQueue_flush(worker_queues[w]) } :
          /\ worker_queues' = [ worker_queues EXCEPT ![w] = fl[1] ]
          /\ qlog' = [ qlog EXCEPT ![w] = << >> ]
          /\ returned' = Returned("flush", w, fl[2], qlog[w], worker_queues[w])
          /\ discarded' = {}
          /\ last' = Outcome("_WorkerQueue.flush", "ok", << >>, << >>, FALSE, 0)
    /\ UNCHANGED << server, rtype, ing, ret, nsubmitted, submitted, shipped_ok,
                    rpcs, built >>

NextQueue ==
    \/ QueueIngestorInit
    \/ QueueInsert
    \/ QueueFlush

SpecQueue == Init /\ [][NextQueue]_vars

\* ------------------------------------------------------------------------
\* A key builder called directly: record types whose key columns are int,
\* ipv4 and charN columns, build on a record and
\* build_key_with_shard_values_only on a list of key values
\* ------------------------------------------------------------------------
KeyType1 == << Col("c", "string", { "char1", "primary_key" }) >>
KeyType2 == << Col("c", "string", { "char2", "primary_key", "shard_key" }) >>
KeyType3 == << Col("c", "string", { "char1", "primary_key" }),
               Col("n", "int", { "primary_key", "shard_key" }) >>
KeyType4 == << Col("ip", "string", { "ipv4", "primary_key" }),
               Col("c", "string", { "char2", "shard_key" }) >>
KeyType5 == << Col("c", "string", { "char2", "primary_key" }),
               Col("d", "string", { "char1", "primary_key" }) >>

KeyRecordTypes == { KeyType1, KeyType2, KeyType3, KeyType4, KeyType5 }

\* the values a column of a record takes: None, and for an int column the
\* int 1, for an ipv4 column a string _ipv4_regex rejects, "10.0.0.1",
\* "127.0.0.1", "1.2.3.4", "300.0.0.1" and "1.2.3.256", for a charN column
\* "", "a", "\u00e9", "ab" and "abc"
ColumnVals(col) ==
    IF col.type = "int" THEN { NullVal, IntVal(1) }
    ELSE IF "ipv4" \in col.props
    THEN { NullVal, MalformedVal, Ipv4Val(10, 0, 0, 1), Ipv4Val(127, 0, 0, 1),
           Ipv4Val(1, 2, 3, 4), Ipv4Val(300, 0, 0, 1), Ipv4Val(1, 2, 3, 256) }
    ELSE { NullVal, StrVal(<< >>), StrVal(<< 97 >>), StrVal(<< 233 >>),
           StrVal(<< 97, 98 >>), StrVal(<< 97, 98, 99 >>) }

\* the records of a record type
RecordsOf(rt) ==
    { r \in [ 1..Len(rt) -> UNION { ColumnVals(rt[i]) : i \in 1..Len(rt) } ] :
        \A i \in 1..Len(rt) : r[i] \in ColumnVals(rt[i]) }

InitKey ==
    /\ server = ServerOff
    /\ rtype \in KeyRecordTypes
    /\ ing = NoIngestor
    /\ worker_queues = << >>
    /\ ret = NoRetriever
    /\ nsubmitted = 0
    /\ submitted = {}
    /\ shipped_ok = {}
    /\ rpcs = << >>
    /\ discarded = {}
    /\ qlog = << >>
    /\ returned = NoReturn
    /\ built = NoBuilt
    /\ last = Outcome("none", "ok", << >>, << >>, FALSE, 0)

\* _RecordKeyBuilder( gpudb, record_type, is_primary_key ).build( record )
Build ==
    /\ \E is_primary_key \in BOOLEAN, record \in RecordsOf(rtype) :
       \E b \in { RecordKeyBuilder(rtype, is_primary_key) } :
          /\ b.status = "ok"
          /\ built' = Built("build", b, KeyValues(b, record), build(b, record))
    /\ UNCHANGED << server, rtype, ing, worker_queues, ret, nsubmitted,
                    submitted, shipped_ok, rpcs, discarded, qlog, returned, last >>

\* the builder's build_key_with_shard_values_only( key_values ), with a
\* list of the values of the key columns, or of one value too few
BuildShardValuesOnly ==
    /\ \E is_primary_key \in BOOLEAN, record \in RecordsOf(rtype), short \in 0..1 :
       \E b \in { RecordKeyBuilder(rtype, is_primary_key) } :
       \E key_values \in { SubSeq(KeyValues(b, record), 1,
                                  Len(b.routing_key_indices) - short) } :
          /\ b.status = "ok"
          /\ Len(b.routing_key_indices) >= short
          /\ built' = Built("build_key_with_shard_values_only", b, key_values,
                            build_key_with_shard_values_only(b, key_values))
    /\ UNCHANGED << server, rtype, ing, worker_queues, ret, nsubmitted,
                    submitted, shipped_ok, rpcs, discarded, qlog, returned, last >>

NextKey ==
    \/ Build
    \/ BuildShardValuesOnly

SpecKey == InitKey /\ [][NextKey]_vars

\* ------------------------------------------------------------------------
\* A key routed directly: _RecordKey.route on keys with the routing hashes
\* around 0, INT64_MAX, INT64_MIN and -1, over routing tables
\* ------------------------------------------------------------------------
RoutingHashes ==
    { << h1, h2, h3, h4 >> :
        h1 \in { 0, 1, 2, 3, HalfLimb, LimbBase - 2, LimbBase - 1 },
        h2 \in { 0, LimbBase - 1 }, h3 \in { 0, LimbBase - 1 },
        h4 \in { 0, HalfLimb - 1, HalfLimb, LimbBase - 1 } }

RoutingTables == { << >>, << 0, 1, 0, 1 >>, << 0, 1, 2 >>, << 1, 0 >>, << 4 >>,
                   << 0, 1, 2, 3, 4 >> }

\* a key whose hashes compute_hashes has set from the routing hash
HashedKey(routing_hash) ==
    [ buffer_value |-> << >>, is_valid |-> TRUE, status |-> "ok",
      routing_hash |-> routing_hash,
      hash_code    |-> I64Xor(routing_hash, I64Shr32(routing_hash)) ]

InitRoute ==
    /\ server = ServerOff
    /\ rtype = TypeNoKey
    /\ ing = NoIngestor
    /\ worker_queues = << >>
    /\ ret = NoRetriever
    /\ nsubmitted = 0
    /\ submitted = {}
    /\ shipped_ok = {}
    /\ rpcs = << >>
    /\ discarded = {}
    /\ qlog = << >>
    /\ returned = NoReturn
    /\ built = NoBuilt
    /\ last = Outcome("none", "ok", << >>, << >>, FALSE, 0)

\* a key gets its hashes (the end of build): built keeps the key
ComputeHashes ==
    /\ \E routing_hash \in RoutingHashes :
          built' = Built("compute_hashes", << >>, << >>, HashedKey(routing_hash))
    /\ UNCHANGED << server, rtype, ing, worker_queues, ret, nsubmitted,
                    submitted, shipped_ok, rpcs, discarded, qlog, returned, last >>

\* key.route( routing_table ) on the key built last: built keeps the
\* routing table (b), the routing index computed (values; none for an empty
\* table) and the key, last the value returned
Route ==
    /\ built.op \in { "compute_hashes", "route" }
    /\ \E routing_table \in RoutingTables :
          /\ built' = Built("route", routing_table,
                            IF routing_table = << >> THEN << >>
                            ELSE << routing_index(built.key, routing_table) >>,
                            built.key)
          /\ last' = Outcome("route", "ok", << >>, << >>, TRUE,
                             route(built.key, routing_table))
    /\ UNCHANGED << server, rtype, ing, worker_queues, ret, nsubmitted,
                    submitted, shipped_ok, rpcs, discarded, qlog, returned >>

NextRoute ==
    \/ ComputeHashes
    \/ Route

SpecRoute == InitRoute /\ [][NextRoute]_vars

\* ------------------------------------------------------------------------
\* A worker list built directly: GPUdbWorkerList on servers whose
\* conf.worker_http_server_urls lists the head and up to two worker ranks
\* with one or two addresses each, some of them no URLs
\* ------------------------------------------------------------------------
\* the addresses a worker rank can list: two URLs and a string that does not
\* parse as a URL
RankAddresses(i) ==
    IF i = 1
    THEN { Url("r1a"), Url("r1b"), [ str |-> "r1x", wellformed |-> FALSE ] }
    ELSE { Url("r2a"), Url("r2b"), [ str |-> "r2x", wellformed |-> FALSE ] }

\* the ','-separated addresses of rank i
RankLists(i) ==
    { << a >> : a \in RankAddresses(i) }
        \cup { << a, b >> : a \in RankAddresses(i), b \in RankAddresses(i) }

\* the ';'-separated ranks: the head alone, or with one or two worker ranks
UrlsPerRank ==
    { << << Url(HeadUrl) >> >> }
        \cup { << << Url(HeadUrl) >>, r1 >> : r1 \in RankLists(1) }
        \cup { << << Url(HeadUrl) >>, r1, r2 >> :
                  r1 \in RankLists(1), r2 \in RankLists(2) }

WorkerServers ==
    { Server(enabled, urls, << >>) :
        enabled \in { "TRUE", "FALSE" }, urls \in UrlsPerRank }

\* the ip_regex argument: "" or a pattern, given by the addresses that
\* re.match accepts
IpRegexes ==
    { NoRegex,
      [ empty |-> FALSE, matches |-> { "r1a", "r2a" } ],
      [ empty |-> FALSE, matches |-> { "r1b", "r2a", "r2b" } ],
      [ empty |-> FALSE, matches |-> {} ] }

InitWorkers ==
    /\ server \in WorkerServers
    /\ rtype = TypeNoKey
    /\ ing = NoIngestor
    /\ worker_queues = << >>
    /\ ret = NoRetriever
    /\ nsubmitted = 0
    /\ submitted = {}
    /\ shipped_ok = {}
    /\ rpcs = << >>
    /\ discarded = {}
    /\ qlog = << >>
    /\ returned = NoReturn
    /\ built = NoBuilt
    /\ last = Outcome("none", "ok", << >>, << >>, FALSE, 0)

\* GPUdbWorkerList( gpudb, ip_regex, use_head_node_only ): last keeps the
\* exception raised, the worker URLs of the object (records) and the two
\* arguments (arg)
WorkerListInit ==
    /\ \E ip_regex \in IpRegexes, use_head_node_only \in BOOLEAN :
       \E wl \in { GPUdbWorkerList(server, ip_regex, use_head_node_only) } :
          last' = Outcome("GPUdbWorkerList", wl.status, wl.worker_urls,
                          << ip_regex, use_head_node_only >>, FALSE, 0)
    /\ UNCHANGED << server, rtype, ing, worker_queues, ret, nsubmitted,
                    submitted, shipped_ok, rpcs, discarded, qlog, returned, built >>

NextWorkers == WorkerListInit

SpecWorkers == InitWorkers /\ [][NextWorkers]_vars

\* ------------------------------------------------------------------------
\* A key analyzer made directly: _RecordKeyBuilder on track-type tables
\* ------------------------------------------------------------------------
\* a record type with the columns TRACKID (at position pos), TIMESTAMP, x
\* and y, and the columns of extra after them
TrackType(pos, trackid_props, x_props, extra) ==
    LET others == << Col("TIMESTAMP", "long", { "timestamp" }),
                     Col("x", "double", x_props), Col("y", "double", {}) >>
    IN  SubSeq(others, 1, pos - 1) \o << Col("TRACKID", "string", trackid_props) >>
            \o SubSeq(others, pos, 3) \o extra

TrackRecordTypes ==
    { TrackType(pos, trackid_props, x_props, extra) :
        pos \in 1..4,
        trackid_props \in { {}, { "char2" }, { "char2", "nullable" },
                            { "char2", "shard_key" } },
        x_props \in { {}, { "shard_key" } },
        extra \in { << >>, << Col("n", "int", {}) >>,
                    << Col("n", "int", { "primary_key" }) >> } }

InitTrack ==
    /\ server = ServerOff
    /\ rtype \in TrackRecordTypes
    /\ ing = NoIngestor
    /\ worker_queues = << >>
    /\ ret = NoRetriever
    /\ nsubmitted = 0
    /\ submitted = {}
    /\ shipped_ok = {}
    /\ rpcs = << >>
    /\ discarded = {}
    /\ qlog = << >>
    /\ returned = NoReturn
    /\ built = NoBuilt
    /\ last = Outcome("none", "ok", << >>, << >>, FALSE, 0)

\* _RecordKeyBuilder( record_type, is_primary_key ): built keeps the object
\* (with the exception raised as its status) and is_primary_key (values)
AnalyzeKeys ==
    /\ \E is_primary_key \in BOOLEAN :
          built' = Built("_RecordKeyBuilder", RecordKeyBuilder(rtype, is_primary_key),
                         << is_primary_key >>, NoKey)
    /\ UNCHANGED << server, rtype, ing, worker_queues, ret, nsubmitted,
                    submitted, shipped_ok, rpcs, discarded, qlog, returned, last >>

NextTrack == AnalyzeKeys

SpecTrack == InitTrack /\ [][NextTrack]_vars

\* ------------------------------------------------------------------------
\* A timestamp added directly: _RecordKey( 8 ).add_timestamp( val ) for None
\* and for the first and the last millisecond of every day of the range
\* ------------------------------------------------------------------------
TimestampVals ==
    { NullVal } \cup { TsVal(days, ms) : days \in (0 - DaysBefore)..DaysAfter,
                                         ms \in { 0, MSECS_PER_DAY - 1 } }

\* built.values is the value the key is about to be given
InitTime ==
    /\ server = ServerOff
    /\ rtype = TypeNoKey
    /\ ing = NoIngestor
    /\ worker_queues = << >>
    /\ ret = NoRetriever
    /\ nsubmitted = 0
    /\ submitted = {}
    /\ shipped_ok = {}
    /\ rpcs = << >>
    /\ discarded = {}
    /\ qlog = << >>
    /\ returned = NoReturn
    /\ \E val \in TimestampVals : built = Built("none", << >>, << val >>, NoKey)
    /\ last = Outcome("none", "ok", << >>, << >>, FALSE, 0)

\* key.add_timestamp( val ) on a new key of eight bytes: built keeps the
\* fields extracted (b; none for None), val (values) and the key
AddTimestamp ==
    /\ built.op = "none"
    /\ \E val \in { built.values[1] } :
          built' = Built("add_timestamp",
                         IF val.k = "None" THEN << >> ELSE timestamp_fields(val),
                         << val >>, add_timestamp(RecordKey(8), val))
    /\ UNCHANGED << server, rtype, ing, worker_queues, ret, nsubmitted,
                    submitted, shipped_ok, rpcs, discarded, qlog, returned, last >>

NextTime == AddTimestamp

SpecTime == InitTime /\ [][NextTime]_vars

\* ------------------------------------------------------------------------
\* Properties
\* ------------------------------------------------------------------------
\* the records resident in a list of worker queues
Resident(wqs) == UNION { Range(wqs[w].record_queue) : w \in DOMAIN wqs }

IngestCalls == { "insert_record", "insert_records", "flush" }

\* both primary-key images are valid and have the same hash code
SameValidPk(r1, r2) ==
    LET k1 == PkKeyOf(r1)
        k2 == PkKeyOf(r2)
    IN  k1.is_valid /\ k2.is_valid /\ k1.hash_code = k2.hash_code

\* C1, as stated: whenever insert_record, insert_records or flush raises
\* InsertionException, the records the exception carries together with the
\* records of the batches whose insert_records call returned OK are exactly
\* the records submitted to the ingestor.  It is read for the call that
\* raises: the records submitted are those passed to the call and those the
\* worker queues hold when it begins (what earlier calls shipped or handed
\* back is left out of the account), the batches are those of the call.
C1_LosslessFailure ==
    [][ (last'.op \in IngestCalls /\ last'.exc = "InsertionException")
          => (Range(last'.arg) \cup Resident(worker_queues))
                \subseteq (Range(last'.records) \cup OkRecords(rpcs')) ]_vars

\* C1, amended: whenever one of the three calls raises InsertionException,
\* every record passed to that call or resident in a worker queue when it
\* began is afterwards carried by the exception, in a batch whose
\* insert_records call returned OK during the call, still resident in a
\* worker queue, or was dropped or overwritten as a primary-key duplicate.
C1_LosslessPerCall ==
    [][ (last'.op \in IngestCalls /\ last'.exc = "InsertionException")
          => (Range(last'.arg) \cup Resident(worker_queues))
                \subseteq (Range(last'.records) \cup OkRecords(rpcs')
                           \cup Resident(worker_queues') \cup discarded') ]_vars

\* flush has raised InsertionException for one queue while another queue
\* still holds a record the exception does not carry
C1_Witness ==
    /\ last.op = "flush"
    /\ last.exc = "InsertionException"
    /\ Resident(worker_queues) \ Range(last.records) # {}

\* C2: no worker queue holds more than capacity records after a call of
\* insert or flush; and when insert returns a batch because the capacity
\* was reached, the batch has exactly capacity records and the record queue
\* and the primary-key index are empty afterwards.
C2_QueueCapacity ==
    /\ \A w \in DOMAIN worker_queues :
          LET wq == worker_queues[w]
          IN  /\ Len(wq.record_queue) <= wq.capacity
              /\ Len(WorkerQueue_flush(wq)[1].record_queue) <= wq.capacity
              /\ \A record \in RecordVals :
                    LET r == WorkerQueue_insert(wq, record, PkKeyOf(record))
                    IN  /\ Len(r[1].record_queue) <= wq.capacity
                        /\ ~r[2].none =>
                              /\ Len(r[2].records) = wq.capacity
                              /\ r[1].record_queue = << >>
                              /\ r[1].primary_key_to_queue_index_map = EmptyMap
    /\ (last.op = "insert_record" /\ rpcs # << >>) =>
          /\ Len(rpcs[1].data) = ing.batch_size
          /\ worker_queues[rpcs[1].worker].record_queue = << >>
          /\ worker_queues[rpcs[1].worker].primary_key_to_queue_index_map = EmptyMap

\* insert has returned a batch of two records of a table with a primary key
C2_Witness ==
    /\ last.op = "insert_record"
    /\ Len(rpcs) = 1
    /\ Len(rpcs[1].data) = 2
    /\ ing.batch_size = 2
    /\ worker_queues[rpcs[1].worker].has_primary_key

\* C3: with a primary key and update_on_existing_pk off, no batch a worker
\* queue returns (when its capacity is reached, or by flush) contains two
\* records whose primary-key images are both valid and have the same hash
\* code.
C3_PkDedup ==
    \A k \in DOMAIN rpcs :
        LET wq   == worker_queues[rpcs[k].worker]
            data == rpcs[k].data
        IN  (wq.has_primary_key /\ ~wq.update_on_existing_pk) =>
                \A i, j \in DOMAIN data :
                    i < j => ~SameValidPk(data[i], data[j])

\* a queue without update has returned a batch after it dropped a record
\* whose valid primary key was already resident
C3_Witness ==
    \E k \in DOMAIN rpcs :
        LET wq == worker_queues[rpcs[k].worker]
        IN  /\ wq.has_primary_key /\ ~wq.update_on_existing_pk
            /\ \E n, m \in DOMAIN rpcs[k].log :
                  n < m /\ SameValidPk(rpcs[k].log[n], rpcs[k].log[m])
            /\ Len(rpcs[k].data) < Len(rpcs[k].log)

\* C4: with update_on_existing_pk on, for every hash code h of a valid
\* primary key inserted into a queue since its last reset, the batch the
\* queue returns contains exactly one record whose valid primary key has
\* hash code h, and it is the last record inserted with it.
C4_PkUpdate ==
    \A k \in DOMAIN rpcs :
        LET wq   == worker_queues[rpcs[k].worker]
            data == rpcs[k].data
            log  == rpcs[k].log
        IN  (wq.has_primary_key /\ wq.update_on_existing_pk) =>
                \A n \in DOMAIN log :
                    PkKeyOf(log[n]).is_valid =>
                        LET same  == { i \in DOMAIN data :
                                          SameValidPk(data[i], log[n]) }
                            lastn == CHOOSE x \in DOMAIN log :
                                        /\ SameValidPk(log[x], log[n])
                                        /\ \A y \in DOMAIN log :
                                              SameValidPk(log[y], log[n]) => y <= x
                        IN  /\ Cardinality(same) = 1
                            /\ \A i \in same : data[i] = log[lastn]

\* a queue with update has returned a batch after a record overwrote a
\* different resident record with the same valid primary key
C4_Witness ==
    \E k \in DOMAIN rpcs :
        LET wq == worker_queues[rpcs[k].worker]
        IN  /\ wq.has_primary_key /\ wq.update_on_existing_pk
            /\ \E n, m \in DOMAIN rpcs[k].log :
                  /\ n < m
                  /\ SameValidPk(rpcs[k].log[n], rpcs[k].log[m])
                  /\ rpcs[k].log[n] # rpcs[k].log[m]
                  /\ rpcs[k].data = << rpcs[k].log[m] >>

\* C5: the worker index insert_record or get_records_by_key chooses is a
\* valid index of the worker queues, 0 <= i < number of worker queues.
C5_RoutingDomain ==
    /\ (last.op \in { "insert_record", "insert_records" } /\ last.routed) =>
          (0 <= last.worker_index /\ last.worker_index < Len(worker_queues))
    /\ (last.op = "get_records_by_key" /\ last.routed) =>
          (0 <= last.worker_index /\ last.worker_index < ret.num_queues)

\* C6: after a construction that succeeded with a fetched routing table,
\* every entry e of the table satisfies 0 <= e < num_ranks (so a reply with
\* a rank outside this range fails the construction).
C6_ShardMapRange ==
    /\ (ing.status = "ok" /\ ing.routing_table_set) =>
          \A k \in DOMAIN ing.routing_table :
              0 <= ing.routing_table[k] /\ ing.routing_table[k] < ing.num_ranks
    /\ (ret.status = "ok" /\ ret.routing_table_set) =>
          \A k \in DOMAIN ret.routing_table :
              0 <= ret.routing_table[k] /\ ret.routing_table[k] < ret.num_ranks

\* get_records_by_key follows insert_record with the shard-key values of
\* the record that was inserted, and both selected a worker
LookupAfterInsert ==
    /\ ing.status = "ok" /\ ret.status = "ok"
    /\ ret.shard_key_builder # "None"
    /\ last.op = "insert_record" /\ last.routed
    /\ last'.op = "get_records_by_key" /\ last'.routed
    /\ last'.arg = KeyValues(BuilderOf(ret.shard_key_builder), last.arg[1])

C8_FlushFailureCarriesBatch ==
    (last.op \in { "insert_record", "flush" }) =>
        \A k \in DOMAIN rpcs :
            rpcs[k].kind # "OK" =>
                /\ last.exc = "InsertionException"
                /\ last.records = rpcs[k].data

\* C9: when insert_records fails at a position i of the list, the records
\* of the exception are the failing batch followed by exactly the records
\* at the positions after i (checked for some position i, which the claim
\* implies).
C9_ErrorPayload ==
    (last.op = "insert_records" /\ last.exc = "InsertionException") =>
        \E i \in DOMAIN last.arg :
            last.records = rpcs[Len(rpcs)].data
                              \o SubSeq(last.arg, i + 1, Len(last.arg))

\* C10: when flush returns without an error, every worker queue and every
\* primary-key index is empty, and the records of every queue that was not
\* empty when flush was called were passed, as one batch, to insert_records
\* on the client of that queue's worker.
C10_FlushDrains ==
    [][ (last'.op = "flush" /\ last'.exc = "ok") =>
          /\ \A w \in DOMAIN worker_queues' :
                /\ worker_queues'[w].record_queue = << >>
                /\ worker_queues'[w].primary_key_to_queue_index_map = EmptyMap
          /\ \A w \in DOMAIN worker_queues :
                worker_queues[w].record_queue # << >> =>
                    \E k \in DOMAIN rpcs' :
                        /\ rpcs'[k].worker = w
                        /\ rpcs'[k].data = worker_queues[w].record_queue ]_vars

\* flush has returned without an error after it shipped the batches of two
\* worker queues
C10_Witness ==
    /\ last.op = "flush"
    /\ last.exc = "ok"
    /\ Len(rpcs) = 2
    /\ rpcs[1].worker # rpcs[2].worker

\* the position of the worker queue whose insert_records call failed in
\* the calls a call of the interface made (the last call it made)
FailedWorker(calls) == calls[Len(calls)].worker

\* flush stopped at the worker queue k with an InsertionException that
\* carries the records k held; the queues before k are empty and what they
\* held was passed to insert_records with an OK reply; the queues after k
\* are as they were
FlushStoppedAt(k) ==
    /\ last'.exc = "InsertionException"
    /\ last'.records = worker_queues[k].record_queue
    /\ \A w \in 1..(k - 1) :
          /\ worker_queues'[w].record_queue = << >>
          /\ worker_queues[w].record_queue # << >> =>
                \E j \in DOMAIN rpcs' :
                    /\ rpcs'[j].worker = w
                    /\ rpcs'[j].kind = "OK"
                    /\ rpcs'[j].data = worker_queues[w].record_queue
    /\ \A w \in (k + 1)..Len(worker_queues) :
          worker_queues'[w] = worker_queues[w]

\* C11: when flush fails at the worker queue k, the error carries the
\* batch of k (the records k held when flush was called), the records of
\* every queue before k were passed to insert_records with an OK reply and
\* those queues are empty, and every queue after k holds exactly the
\* records it held before the call.
C11_FlushPartialFailure ==
    [][ (last'.op = "flush" /\ last'.exc # "ok")
          => FlushStoppedAt(FailedWorker(rpcs')) ]_vars

\* the same for the failures __flush turns into an InsertionException: a
\* reply of insert_records with a status other than OK
C11_StatusFailure ==
    [][ (last'.op = "flush" /\ last'.exc # "ok"
            /\ rpcs'[Len(rpcs')].kind = "ERROR")
          => FlushStoppedAt(FailedWorker(rpcs')) ]_vars

\* how often x occurs in a list
Count(s, x) == Cardinality({ i \in DOMAIN s : s[i] = x })

RECURSIVE HeldCount(_, _, _)
\* how often x is resident in the worker queues from position w on
HeldCount(wqs, x, w) ==
    IF w > Len(wqs) THEN 0
    ELSE Count(wqs[w].record_queue, x) + HeldCount(wqs, x, w + 1)

RECURSIVE SentCount(_, _, _)
\* how often x was passed to insert_records in the calls from position k on
SentCount(calls, x, k) ==
    IF k > Len(calls) THEN 0
    ELSE Count(calls[k].data, x) + SentCount(calls, x, k + 1)

\* C12: no batch is passed to insert_records twice and nothing is sent
\* again after a failure.  In every call of insert_record, insert_records
\* or flush, a record is passed to insert_records at most as often as it was
\* resident in the worker queues before the call or passed to the call; an
\* insert_records call that fails is the last one of the call, and after it
\* the record queue and the primary-key index of its worker queue are empty.
C12_NoRetry ==
    [][ (last'.op \in IngestCalls) =>
          /\ \A x \in RecordVals :
                SentCount(rpcs', x, 1)
                    <= HeldCount(worker_queues, x, 1) + Count(last'.arg, x)
          /\ \A k \in DOMAIN rpcs' :
                rpcs'[k].kind # "OK" =>
                    /\ k = Len(rpcs')
                    /\ worker_queues'[rpcs'[k].worker].record_queue = << >>
                    /\ worker_queues'[rpcs'[k].worker]
                          .primary_key_to_queue_index_map = EmptyMap ]_vars

\* records were submitted to a table without keys, none was shipped with
\* an OK reply, and a flush has found every queue empty: a batch failed
\* before and the flush sent nothing again
C12_Witness ==
    /\ rtype = TypeNoKey
    /\ submitted # {}
    /\ shipped_ok = {}
    /\ last.op = "flush"
    /\ last.exc = "ok"
    /\ rpcs = << >>

RECURSIVE IsSubsequence(_, _)
\* the list a can be had from the list b by leaving elements of b out
IsSubsequence(a, b) ==
    IF a = << >> THEN TRUE
    ELSE IF b = << >> THEN FALSE
    ELSE IF Head(a) = Head(b) THEN IsSubsequence(Tail(a), Tail(b))
    ELSE IsSubsequence(a, Tail(b))

\* C13, as stated: in every batch a worker queue returns, of any two
\* records the one passed to insert earlier stands at the lower position;
\* so the batch, read from the front, follows the order of the records
\* passed to insert since the queue's reset.
C13_BatchOrder ==
    (returned.op # "none" /\ ~returned.none) =>
        IsSubsequence(returned.records, returned.log)

\* the positions of a log whose record is the first with its valid primary
\* key, or has no valid primary key
Firsts(log) ==
    { n \in DOMAIN log : ~\E m \in 1..(n - 1) : SameValidPk(log[m], log[n]) }

\* the last record of the log with the valid primary key of log[ n ]
Latest(log, n) ==
    LET same == { m \in DOMAIN log : m = n \/ SameValidPk(log[m], log[n]) }
    IN  log[CHOOSE m \in same : \A j \in same : j <= m]

\* the i-th smallest element of a set of numbers
NthOf(S, i) == CHOOSE n \in S : Cardinality({ m \in S : m < n }) = i - 1

\* C13, amended: in every batch a worker queue returns, the records stand
\* in the order in which their primary keys were first passed to insert
\* since the queue's reset (a record without a valid primary key, or of a
\* table without one, counts for itself).  With update_on_existing_pk off
\* the record at a position is the first one passed with its key, so the
\* batch is in insertion order; with it on, it is the last one passed with
\* its key, which stands where the record it replaced stood.
C13_BatchOrderByFirstKey ==
    (returned.op # "none" /\ ~returned.none) =>
        LET log == returned.log
            K   == Firsts(log)
        IN  returned.records =
                [ i \in 1..Cardinality(K) |->
                    IF returned.before.update_on_existing_pk
                    THEN Latest(log, NthOf(K, i))
                    ELSE log[NthOf(K, i)] ]

\* a queue with update has returned a batch in which a record stands
\* before a record that was passed to insert before it
C13_Witness ==
    /\ returned.op # "none" /\ ~returned.none
    /\ returned.before.update_on_existing_pk
    /\ Len(returned.records) = 2
    /\ Len(returned.log) = 3
    /\ returned.records[1] = returned.log[3]
    /\ returned.records[2] = returned.log[2]
    /\ returned.log[3] # returned.log[1]

\* C14: if the server reports multi-head disabled, or the ingestor was
\* constructed with is_table_replicated = True, then the ingestor has one
\* worker queue and it is the head's, admin_show_shards was not called, and
\* every record insert_record takes is queued at worker index 0, the head.
C14_CollapseToHead ==
    (ing.status = "ok"
        /\ (server.enable_worker_http_servers # "TRUE" \/ ing.is_table_replicated)) =>
        /\ Len(worker_queues) = 1
        /\ worker_queues[1].url = HeadUrl
        /\ ~ing.routing_table_set
        /\ (last.op \in { "insert_record", "insert_records" } /\ last.routed) =>
              last.worker_index = 0

\* C15: every key image build or build_key_with_shard_values_only returns
\* has a buffer as long as the builder's key buffer size, the sum of the
\* widths of the key columns.
C15_ImageWidth ==
    (built.op # "none" /\ built.key.status = "ok") =>
        Len(built.key.buffer_value) = built.b.key_buffer_size

\* the value of the i-th key column is one of the value errors: a string
\* that is not an IPv4 address (no match, or a part above 255), a charN
\* value longer than N
ValueErrorAt(b, values, i) ==
    LET t == b.key_types[i]
        v == values[i]
    IN  \/ /\ t = "ipv4"
           /\ \/ v.k = "malformed"
              \/ v.k = "ipv4" /\ \E j \in 1..4 : v.v[j] > 255
        \/ /\ t \in DOMAIN CharN
           /\ v.k = "str"
           /\ Len(v.v) > CharN[t]

\* the bytes of the i-th key column in a key image
ColumnBytes(b, key, i) ==
    LET offset == SumSizes(SubSeq(b.key_types, 1, i - 1))
    IN  SubSeq(key.buffer_value, offset + 1, offset + column_type_sizes[b.key_types[i]])

\* C16: when the value of a key column is a value error, build raises no
\* error and returns an image that is marked invalid and has zeros for the
\* width of that column.
C16_ValueErrorsFlow ==
    (built.op = "build") =>
        \A i \in DOMAIN built.values :
            ValueErrorAt(built.b, built.values, i) =>
                /\ built.key.status = "ok"
                /\ ~built.key.is_valid
                /\ ColumnBytes(built.b, built.key, i)
                      = ZeroBytes(column_type_sizes[built.b.key_types[i]])

\* insert_record, in the step it takes, selected the worker queue w for a
\* record whose primary-key image is valid and whose hash code is in the
\* index of w, a queue with a primary key
KeyIsIndexed(w) ==
    /\ last'.op = "insert_record"
    /\ last'.routed
    /\ w = PyIndex(Len(worker_queues), last'.worker_index)
    /\ w # 0
    /\ worker_queues[w].has_primary_key
    /\ PkKeyOf(last'.arg[1]).is_valid
    /\ PkKeyOf(last'.arg[1]).hash_code
          \in DOMAIN worker_queues[w].primary_key_to_queue_index_map

\* C17: with a primary key and update_on_existing_pk off, insert_record of
\* a record whose valid primary-key hash is already in the index of its
\* worker queue leaves the record queue and the index (of every queue) as
\* they were, makes no insert_records call and raises no error.
C17_DuplicateDropNoOp ==
    [][ \A w \in DOMAIN worker_queues :
          (KeyIsIndexed(w) /\ ~worker_queues[w].update_on_existing_pk) =>
              /\ worker_queues' = worker_queues
              /\ rpcs' = << >>
              /\ last'.exc = "ok"
              /\ last'.records = << >> ]_vars

\* insert_record has dropped a record as a duplicate: the queue it selected
\* has a primary key, no update, and holds a record with the same valid key
C17_Witness ==
    /\ last.op = "insert_record"
    /\ last.routed
    /\ discarded = { last.arg[1] }
    /\ rpcs = << >>
    /\ \E w \in DOMAIN worker_queues :
          /\ w = last.worker_index + 1
          /\ worker_queues[w].has_primary_key
          /\ ~worker_queues[w].update_on_existing_pk
          /\ \E i \in DOMAIN worker_queues[w].record_queue :
                SameValidPk(worker_queues[w].record_queue[i], last.arg[1])

\* the record the last direct call of insert was given
Inserted == returned.log[Len(returned.log)]

\* C18: when the queue has a primary key and the primary-key image of the
\* record is invalid, insert appends the record (the queue grows by one,
\* also when the image's hash code is in the index) and leaves the index as
\* it was; when that fills the queue, the grown queue is returned and the
\* queue and the index are reset.
C18_InvalidImageBypass ==
    (returned.op = "insert" /\ returned.before.has_primary_key
        /\ ~PkKeyOf(Inserted).is_valid) =>
        LET before == returned.before
            after  == worker_queues[returned.w]
            grown  == Append(before.record_queue, Inserted)
        IN  IF Len(grown) = before.capacity
            THEN /\ ~returned.none
                 /\ returned.records = grown
                 /\ after.record_queue = << >>
                 /\ after.primary_key_to_queue_index_map = EmptyMap
            ELSE /\ returned.none
                 /\ after.record_queue = grown
                 /\ after.primary_key_to_queue_index_map
                       = before.primary_key_to_queue_index_map

\* insert has appended a record with an invalid primary-key image whose
\* hash code was in the index, and the queue did not get full
C18_Witness ==
    /\ returned.op = "insert"
    /\ returned.none
    /\ returned.before.has_primary_key
    /\ ~PkKeyOf(Inserted).is_valid
    /\ PkKeyOf(Inserted).hash_code
          \in DOMAIN returned.before.primary_key_to_queue_index_map
    /\ Len(worker_queues[returned.w].record_queue)
          = Len(returned.before.record_queue) + 1

\* C19, as stated: for a queue with a primary key, after every insert or
\* flush the keys of primary_key_to_queue_index_map are the hash codes of
\* the primary-key images of the records resident in record_queue.
C19_IndexDomain ==
    \A w \in DOMAIN worker_queues :
        worker_queues[w].has_primary_key =>
            DOMAIN worker_queues[w].primary_key_to_queue_index_map
                = { PkKeyOf(r).hash_code : r \in Range(worker_queues[w].record_queue) }

\* C19, amended: the keys of the index are the hash codes of the valid
\* primary-key images of the resident records.
C19_IndexDomainValid ==
    \A w \in DOMAIN worker_queues :
        worker_queues[w].has_primary_key =>
            DOMAIN worker_queues[w].primary_key_to_queue_index_map
                = { PkKeyOf(r).hash_code :
                      r \in { x \in Range(worker_queues[w].record_queue) :
                                 PkKeyOf(x).is_valid } }

\* a queue with a primary key holds a record with a valid and a record
\* with an invalid primary-key image after a call of insert
C19_Witness ==
    /\ returned.op = "insert"
    /\ \E w \in DOMAIN worker_queues :
          /\ worker_queues[w].has_primary_key
          /\ Len(worker_queues[w].record_queue) = 2
          /\ \E x, y \in Range(worker_queues[w].record_queue) :
                PkKeyOf(x).is_valid /\ ~PkKeyOf(y).is_valid
          /\ Cardinality(DOMAIN worker_queues[w].primary_key_to_queue_index_map) = 1

RECURSIVE OkCounts(_, _, _)
\* the sum of the count_inserted (i = 1) or count_updated (i = 2) of the
\* replies with status OK among the calls from position k on
OkCounts(calls, i, k) ==
    IF k > Len(calls) THEN 0
    ELSE (IF calls[k].kind = "OK" THEN calls[k].reply[i] ELSE 0)
            + OkCounts(calls, i, k + 1)

\* C20: over a call of insert_record, insert_records or flush,
\* count_inserted and count_updated grow by exactly the counts of the
\* replies of the insert_records calls that returned OK: a failed __flush,
\* a flush of an empty queue and an insert that does not fill its queue
\* leave both as they were.
C20_Counters ==
    [][ (last'.op \in IngestCalls) =>
          /\ ing'.count_inserted = ing.count_inserted + OkCounts(rpcs', 1, 1)
          /\ ing'.count_updated = ing.count_updated + OkCounts(rpcs', 2, 1) ]_vars

\* flush has shipped the batch of one queue with an OK reply whose counts
\* were added, and then failed on the next queue with a reply that carried
\* counts too
C20_Witness ==
    /\ last.op = "flush"
    /\ Len(rpcs) = 2
    /\ rpcs[1].kind = "OK"
    /\ rpcs[2].kind = "ERROR"
    /\ rpcs[2].reply # << 0, 0 >>
    /\ ing.count_inserted + ing.count_updated = MaxCount

\* a column of the record type is marked as a primary-key or shard-key column
HasKeyColumn(rt) ==
    \E i \in 1..Len(rt) : rt[i].props \cap { "primary_key", "shard_key" } # {}

\* C21: a constructed GPUdbIngestor has fetched the shard map (called
\* admin_show_shards and set routing_table) if and only if multi-head is
\* enabled on the server, the table is not declared replicated and the
\* record type has a primary-key or shard-key column; otherwise
\* routing_table is unset.
C21_FetchCondition ==
    (ing.status # "none") =>
        /\ ing.routing_table_set <=>
              /\ server.enable_worker_http_servers = "TRUE"
              /\ ~ing.is_table_replicated
              /\ HasKeyColumn(rtype)
        /\ ing.routing_table_set => ing.routing_table = RoutingTableOf(server)
        /\ ~ing.routing_table_set => ing.routing_table = << >>

\* an ingestor of a keyed table on a multi-head server has the shard map,
\* and records were inserted through it
C21_Witness ==
    /\ ing.status = "ok"
    /\ ing.routing_table_set
    /\ ing.routing_table = << 1, 1, 0 >>
    /\ HasKeyColumn(rtype)
    /\ last.op = "insert_record"

RECURSIVE LimbWeight(_, _)
\* 65536^(k-1) modulo n; k = 5 gives 2^64 modulo n
LimbWeight(k, n) == IF k = 1 THEN 1 % n ELSE (LimbWeight(k - 1, n) * (LimbBase % n)) % n

\* the value of the signed 64-bit integer h modulo n, in 0..n-1
SignedMod(h, n) ==
    LET u == (h[1] % n) * LimbWeight(1, n) + (h[2] % n) * LimbWeight(2, n)
               + (h[3] % n) * LimbWeight(3, n) + (h[4] % n) * LimbWeight(4, n)
        two64 == LimbWeight(5, n)
    IN  IF I64IsNeg(h) THEN (u + n * n - two64) % n ELSE u % n

\* |h| modulo n for the signed 64-bit integer h
AbsMod(h, n) == IF I64IsNeg(h) THEN (n - SignedMod(h, n)) % n ELSE SignedMod(h, n)

\* h with its sign bit masked off, modulo n
MaskedMod(h, n) == LimbsMod([ h EXCEPT ![4] = @ % HalfLimb ], n)

\* C22, as stated: for a non-empty shard map, route returns shardMap[i]
\* where i is the routing hash with its sign bit masked off, modulo
\* len(shardMap); with the shard map [0,1,0,1] and the hash
\* 0x8000000000000001 the routing index is 1 and the worker index is 1.
C22_RouteMasked ==
    (built.op = "route" /\ built.b # << >>) =>
        LET h == built.key.routing_hash
            i == MaskedMod(h, Len(built.b))
        IN  /\ built.values = << i >>
            /\ last.worker_index = built.b[i + 1]
            /\ (h = << 1, 0, 0, HalfLimb >> /\ built.b = << 0, 1, 0, 1 >>) =>
                  (built.values = << 1 >> /\ last.worker_index = 1)

\* C22, amended: route returns shardMap[i] where i is the absolute value
\* of the signed 64-bit routing hash (2^63 for INT64_MIN) modulo
\* len(shardMap); with the shard map [0,1,0,1] and the hash
\* 0x8000000000000001 the routing index is 3 and the worker index is
\* shardMap[3] = 1.
C22_RouteAbs ==
    (built.op = "route" /\ built.b # << >>) =>
        LET h == built.key.routing_hash
            i == AbsMod(h, Len(built.b))
        IN  /\ built.values = << i >>
            /\ last.worker_index = built.b[i + 1]
            /\ (h = << 1, 0, 0, HalfLimb >> /\ built.b = << 0, 1, 0, 1 >>) =>
                  (built.values = << 3 >> /\ last.worker_index = 1)

\* the key with the hash 0x8000000000000001 has been routed over the shard
\* map [0,1,0,1]
C22_Witness ==
    /\ built.op = "route"
    /\ built.key.routing_hash = << 1, 0, 0, HalfLimb >>
    /\ built.b = << 0, 1, 0, 1 >>
    /\ last.op = "route"

\* the address a is one the regex re accepts (every address when re is "")
RegexMatches(re, a) == re.empty \/ a.str \in re.matches

C24_TrackSynthesis ==
    (built.op = "_RecordKeyBuilder" /\ built.values = << FALSE >>
        /\ TrackTypeColumns \subseteq Range(ColumnNames(rtype))
        /\ \A i \in 1..Len(rtype) : "shard_key" \notin rtype[i].props) =>
        LET track_id_index == IndexOf(ColumnNames(rtype), "TRACKID")
        IN  /\ built.b.status = "ok"
            /\ has_key(built.b)
            /\ built.b.routing_key_indices = << track_id_index >>
            /\ Len(built.b.key_schema_str) = 1
            /\ Len(built.b.key_schema_str[1]) = 1
            /\ built.b.key_schema_str[1][1].name = "TRACKID"
            /\ built.b.key_schema_str[1][1].type = rtype[track_id_index].type

\* The proleptic Gregorian calendar, by the count of days from 0000-03-01
\* in eras of 400 years: the date <<year, month, day>> of the day z days
\* after 1970-01-01
CivilFromDays(z) ==
    LET z1  == z + 719468
        era == z1 \div 146097
        doe == z1 - era * 146097
        yoe == (doe - (doe \div 1460) + (doe \div 36524) - (doe \div 146096)) \div 365
        doy == doe - (365 * yoe + (yoe \div 4) - (yoe \div 100))
        mp  == (5 * doy + 2) \div 153
        d   == doy - ((153 * mp + 2) \div 5) + 1
        m   == IF mp < 10 THEN mp + 3 ELSE mp - 9
    IN  << yoe + era * 400 + (IF m <= 2 THEN 1 ELSE 0), m, d >>

\* the number of days from 1970-01-01 to the date year-month-day
DaysFromCivil(year, month, day) ==
    LET y   == IF month <= 2 THEN year - 1 ELSE year
        era == y \div 400
        yoe == y - era * 400
        mp  == IF month > 2 THEN month - 3 ELSE month + 9
        doy == ((153 * mp + 2) \div 5) + day - 1
        doe == yoe * 365 + (yoe \div 4) - (yoe \div 100) + doy
    IN  era * 146097 + doe - 719468

\* C25: for every integer ms-since-epoch value of the range (which holds
\* the last days of 4-year, 100-year and 400-year cycles), the year, month,
\* day-of-month and day-of-year fields add_timestamp computes are the
\* proleptic Gregorian date of that instant, and the eight bytes appended
\* carry them; val = 0 gives year 1970, month 1, day 1, day-of-year 1.
C25_TimestampDate ==
    (built.op = "add_timestamp" /\ built.values[1].k = "ts") =>
        LET z == built.values[1].v[1]
            date == CivilFromDays(z)
            f == built.b
            buf == built.key.buffer_value
        IN  /\ f.year = date[1]
            /\ f.month_of_year_field = date[2]
            /\ f.day_of_month_field = date[3]
            /\ f.day_of_year_field = z - DaysFromCivil(date[1], 1, 1) + 1
            /\ built.key.status = "ok"
            /\ Len(buf) = 8
            \* bits 53..63, 49..52, 44..48 and 8..16 of the packed value
            /\ LET year_bits == (buf[8] * 8) + (buf[7] \div 32)
               IN  1900 + (IF year_bits >= 1024 THEN year_bits - 2048 ELSE year_bits)
                      = date[1]
            /\ (buf[7] % 32) \div 2 = date[2]
            /\ ((buf[7] % 2) * 16) + (buf[6] \div 16) = date[3]
            /\ buf[2] + ((buf[3] % 2) * 256) = f.day_of_year_field
            /\ z = 0 => << f.year, f.month_of_year_field, f.day_of_month_field,
                            f.day_of_year_field >> = << 1970, 1, 1, 1 >>

\* the last millisecond of 2000-12-31, the last day of a 400-year cycle,
\* was added: day 366 of the year 2000
C25_Witness ==
    /\ built.op = "add_timestamp"
    /\ built.values = << TsVal(11322, MSECS_PER_DAY - 1) >>
    /\ built.b.year = 2000
    /\ built.b.day_of_year_field = 366
    /\ built.b.month_of_year_field = 12
    /\ built.b.day_of_month_field = 31

\* the i-th key column is an ipv4 column and its value is a string, the
\* dotted quad A.B.C.D or a string that is no dotted quad
Ipv4At(i) ==
    /\ built.b.key_types[i] = "ipv4"
    /\ built.values[i].k \in { "ipv4", "malformed" }

\* the value is a well-formed dotted quad with each part in 0..255
WellFormedQuad(v) == v.k = "ipv4" /\ \A j \in 1..4 : v.v[j] <= 255

\* C26, as stated: for a well-formed dotted quad A.B.C.D add_ipv4 appends
\* the bytes [A, B, C, D] in that order ("127.0.0.1" gives
\* [0x7F,0x00,0x00,0x01]); a malformed address or a part above 255 appends
\* four zero bytes and marks the image invalid.
C26_Ipv4QuadOrder ==
    (built.op = "build") =>
        \A i \in DOMAIN built.values :
            Ipv4At(i) =>
                LET v == built.values[i]
                    bytes == ColumnBytes(built.b, built.key, i)
                IN  /\ built.key.status = "ok"
                    /\ IF WellFormedQuad(v)
                       THEN bytes = << v.v[1], v.v[2], v.v[3], v.v[4] >>
                       ELSE bytes = << 0, 0, 0, 0 >> /\ ~built.key.is_valid

\* C26, amended: on a little-endian host add_ipv4 appends the bytes of the
\* 32-bit integer (A<<24)|(B<<16)|(C<<8)|D least significant first, that
\* is [D, C, B, A] ("127.0.0.1" gives [0x01,0x00,0x00,0x7F]); a malformed
\* address or a part above 255 appends four zero bytes and marks the image
\* invalid.
C26_Ipv4NativeOrder ==
    (built.op = "build") =>
        \A i \in DOMAIN built.values :
            Ipv4At(i) =>
                LET v == built.values[i]
                    bytes == ColumnBytes(built.b, built.key, i)
                IN  /\ built.key.status = "ok"
                    /\ IF WellFormedQuad(v)
                       THEN /\ bytes = << v.v[4], v.v[3], v.v[2], v.v[1] >>
                            /\ v = Ipv4Val(127, 0, 0, 1) => bytes = << 1, 0, 0, 127 >>
                            /\ \A j \in DOMAIN built.values :
                                  (Ipv4At(j) => WellFormedQuad(built.values[j]))
                                      => built.key.is_valid
                       ELSE bytes = << 0, 0, 0, 0 >> /\ ~built.key.is_valid

\* a key was built from "127.0.0.1"
C26_Witness ==
    /\ built.op = "build"
    /\ built.values = << Ipv4Val(127, 0, 0, 1) >>
    /\ built.key.status = "ok"
    /\ built.key.is_valid
    /\ built.key.buffer_value = << 1, 0, 0, 127 >>

\* the key columns get_records_by_key looks up by: the shard-key columns
\* of the table, or its primary-key columns if it has no shard key
LookupKeyColumns(rt) ==
    LET shard == KeyColumnsFrom(rt, "shard_key", 1)
    IN  IF shard # << >> THEN shard ELSE KeyColumnsFrom(rt, "primary_key", 1)

\* the key values have the wrong count or, in a dict, lack a column name
BadKeyValues(rt, key_values) ==
    LET cols == LookupKeyColumns(rt)
    IN  \/ ArgLen(key_values) # Len(cols)
        \/ /\ key_values.type = "dict"
           /\ \E k \in 1..Len(cols) : rt[cols[k]].name \notin DOMAIN key_values.items

\* the worker the shard image of well-formed key values routes to
LookupOwner(rt, key_values) ==
    LET cols == LookupKeyColumns(rt)
        b    == RecordKeyBuilder(rt, KeyColumnsFrom(rt, "shard_key", 1) = << >>)
        vals == [ k \in 1..Len(cols) |->
                    IF key_values.type = "dict"
                    THEN key_values.items[rt[cols[k]].name]
                    ELSE key_values.items[k] ]
    IN  route(build_key_with_shard_values_only(b, vals), ret.routing_table)

\* the validation half of C27: without a key column, with a wrong number of
\* key values or with a dict that lacks a key column name,
\* get_records_by_key raises and makes no get_records call
C27_ValidationFirst ==
    (last.op = "get_records_by_key"
        /\ (~HasKeyColumn(rtype) \/ BadKeyValues(rtype, last.arg[1])))
    => (IsError(last.exc) /\ rpcs = << >>)

\* C27: get_records_by_key raises an error and issues no get_records call
\* when the table has no shard or primary key, when the number of key values
\* differs from the number of key columns, or when a dict of key values
\* lacks a key column name; otherwise it issues exactly one get_records
\* call, on the client of the worker the shard image routes to, with the
\* options expression and fast_index_lookup = true.
C27_LookupValidation ==
    (last.op = "get_records_by_key") =>
        IF ~HasKeyColumn(rtype) \/ BadKeyValues(rtype, last.arg[1])
        THEN IsError(last.exc) /\ rpcs = << >>
        ELSE /\ Len(rpcs) = 1
             /\ rpcs[1].endpoint = "get_records"
             /\ rpcs[1].worker = LookupOwner(rtype, last.arg[1])
             /\ DOMAIN rpcs[1].options = { "expression", "fast_index_lookup" }
             /\ rpcs[1].options.fast_index_lookup = "true"

\* the positions in the log of a queue (the records passed to insert since
\* its reset) of the records whose primary-key image is valid and has the
\* hash code h
LoggedFor(log, h) ==
    { i \in 1..Len(log) : PkKeyOf(log[i]).is_valid /\ PkKeyOf(log[i]).hash_code = h }

\* the position in the log of the record most recently accepted for the
\* hash code h: with update_on_existing_pk every record is accepted, without
\* it only the first one is
LastAccepted(wq, log, h) ==
    IF wq.update_on_existing_pk
    THEN CHOOSE i \in LoggedFor(log, h) : \A j \in LoggedFor(log, h) : j <= i
    ELSE CHOOSE i \in LoggedFor(log, h) : \A j \in LoggedFor(log, h) : i <= j

\* C28: for a queue with a primary key, after every insert or flush each
\* value of primary_key_to_queue_index_map is a position p with
\* 0 <= p < len(record_queue), distinct hash codes have distinct positions,
\* and the record at p is the record most recently accepted for that hash
\* code.
C28_IndexPositions ==
    \A w \in DOMAIN worker_queues :
        worker_queues[w].has_primary_key =>
            LET wq  == worker_queues[w]
                map == wq.primary_key_to_queue_index_map
            IN  \A h \in DOMAIN map :
                    /\ 0 <= map[h]
                    /\ map[h] < Len(wq.record_queue)
                    /\ \A g \in DOMAIN map : g # h => map[g] # map[h]
                    /\ LoggedFor(qlog[w], h) # {}
                    /\ wq.record_queue[map[h] + 1]
                          = qlog[w][LastAccepted(wq, qlog[w], h)]

\* a queue with update_on_existing_pk holds two indexed records after three
\* inserts: the third record has replaced the first at position 0
C28_Witness ==
    /\ returned.op = "insert"
    /\ \E w \in DOMAIN worker_queues :
          /\ worker_queues[w].has_primary_key
          /\ worker_queues[w].update_on_existing_pk
          /\ Len(worker_queues[w].record_queue) = 2
          /\ Len(qlog[w]) = 3
          /\ Cardinality(DOMAIN worker_queues[w].primary_key_to_queue_index_map) = 2
          /\ worker_queues[w].record_queue[1] = qlog[w][3]
          /\ worker_queues[w].record_queue[1] # qlog[w][1]

\* the values of the primary-key columns of a record
PkValuesOf(record) ==
    LET cols == KeyColumnsFrom(rtype, "primary_key", 1)
    IN  [ k \in 1..Len(cols) |-> record[cols[k]] ]

\* C29: with a primary key, insert_record drops a record (or, with
\* update_on_existing_pk, overwrites a resident record) only if a record
\* resident in the same worker queue has identical primary-key column
\* values; records whose primary-key values differ, None versus zero
\* included, are never dropped or overwritten by one another.
C29_TrueDuplicates ==
    [][ (last'.op = "insert_record" /\ last'.routed /\ discarded' # {}) =>
          LET record == last'.arg[1]
              before == worker_queues[last'.worker_index + 1]
          IN  /\ before.has_primary_key
              /\ \E r \in Range(before.record_queue) :
                    PkValuesOf(r) = PkValuesOf(record)
              /\ \A d \in discarded' : PkValuesOf(d) = PkValuesOf(record) ]_vars

\* the record at position i of a queue's log is accepted and not overwritten
\* later: the queue has no primary key, or the record's image is invalid, or
\* it is the record most recently accepted for its hash code
Survives(wq, log, i) ==
    \/ ~wq.has_primary_key
    \/ ~PkKeyOf(log[i]).is_valid
    \/ i = LastAccepted(wq, log, PkKeyOf(log[i]).hash_code)

\* how many of the occurrences of x in a queue's log are accepted and not
\* overwritten
SurvCount(wq, log, x) ==
    Cardinality({ i \in DOMAIN log : log[i] = x /\ Survives(wq, log, i) })

\* how often x occurs in the logs of the worker queues
LoggedCount(logs, x) ==
    Cardinality({ p \in UNION { { w } \X DOMAIN logs[w] : w \in DOMAIN logs } :
                    logs[p[1]][p[2]] = x })

\* how often x occurs in the logs of the batches of the calls
CallLogCount(calls, x) ==
    Cardinality({ p \in UNION { { k } \X DOMAIN calls[k].log : k \in DOMAIN calls } :
                    calls[p[1]].log[p[2]] = x })

\* C30: over insert_record, insert_records and flush calls whose
\* insert_records calls all succeed, every record the queue layer accepted
\* (not dropped as a duplicate, not overwritten) is resident in exactly one
\* worker queue or was in exactly one batch passed to insert_records.  Per
\* call and per record value, with multiplicities: a record passed in enters
\* the log of at most one queue (exactly one when the call raises nothing),
\* each queue holds exactly the surviving records of its log, and each batch
\* is exactly the surviving records of the log of the queue it came from.
C30_Conservation ==
    [][ (last'.op \in IngestCalls
            /\ \A k \in DOMAIN rpcs' : rpcs'[k].kind = "OK") =>
          \A x \in RecordVals :
              /\ LoggedCount(qlog', x) + CallLogCount(rpcs', x)
                    <= LoggedCount(qlog, x) + Count(last'.arg, x)
              /\ last'.exc = "ok" =>
                    LoggedCount(qlog', x) + CallLogCount(rpcs', x)
                        = LoggedCount(qlog, x) + Count(last'.arg, x)
              /\ \A w \in DOMAIN worker_queues' :
                    Count(worker_queues'[w].record_queue, x)
                        = SurvCount(worker_queues'[w], qlog'[w], x)
              /\ \A k \in DOMAIN rpcs' :
                    Count(rpcs'[k].data, x)
                        = SurvCount(worker_queues[rpcs'[k].worker], rpcs'[k].log, x) ]_vars

\* a flush whose insert_records calls all succeeded has shipped a batch from
\* a queue that had dropped or overwritten a record: the batch is shorter
\* than the queue's log
C30_Witness ==
    /\ last.op = "flush"
    /\ last.exc = "ok"
    /\ rpcs # << >>
    /\ \A k \in DOMAIN rpcs : rpcs[k].kind = "OK"
    /\ \E k \in DOMAIN rpcs : Len(rpcs[k].log) > Len(rpcs[k].data)
    /\ \A w \in DOMAIN worker_queues : worker_queues[w].record_queue = << >>

====
